---- MODULE Spec2Model ----
(***************************************************************************)
(* Orchestrator of the Responses API proxy: the streaming (SSE) path, the  *)
(* background path, the persistence helpers and the cancel endpoint,       *)
(* modelled as a state machine over one request and the responses table.   *)
(***************************************************************************)
EXTENDS Integers, Sequences, FiniteSets, TLC

\* ------------------------------------------------------------------------
\* Bounds of the model
\* ------------------------------------------------------------------------

\* Largest number of ProviderEvents the adapter yields before its stream ends.
MaxEvents == 3

\* Largest number of ProviderEvents in the runs that race with cancel requests.
MaxRaceEvents == 2

\* Largest number of requests sent to the cancel endpoint.
MaxCancels == 1

\* Largest number of items in a provider's final (non-streaming) result.
MaxResultItems == 2

\* Number of resolveAdapter calls that may be in progress at once.
MaxCallers == 3
Callers == 1..MaxCallers

\* ------------------------------------------------------------------------
\* Input domains
\* ------------------------------------------------------------------------

TextDeltas == {"Hel", "lo"}
\* The tool calls an adapter may report: call id and the outputIndex the
\* adapter attaches to the call's tool_call_start and tool_call_done events.
ToolCalls == {[callId |-> "call_a", outputIndex |-> 0],
              [callId |-> "call_b", outputIndex |-> 7]}
CallIds == {c.callId : c \in ToolCalls}
ToolNames == {"get_weather"}
ArgDeltas == {"{\"ci"}
FinalArgs == {"{\"city\":\"NYC\"}"}
ThinkingDeltas == {"hmm"}
ThinkingTexts == {"because"}
ProviderUsages == {[inputTokens |-> 10, outputTokens |-> 5]}
ErrorMessages == {"upstream exploded"}
\* What the adapter (or the task itself) may throw: the three shapes of abort
\* error, an ordinary Error, and a thrown value that is not an Error.
ThrownErrors ==
    {[class |-> "DOMException", name |-> "AbortError", message |-> "aborted"],
     [class |-> "APIUserAbortError", name |-> "Error", message |-> "aborted"],
     [class |-> "NonError", name |-> "", message |-> ""]}
    \cup {[class |-> "Error", name |-> "Error", message |-> m] : m \in ErrorMessages}

\* How the adapter's stream (or call) ended.
Ended == [end |-> "return"]
Threw(err) == [end |-> "throw", error |-> err]
\* adapter.chat resolved with a final result.
Returned(result) == [end |-> "return", result |-> result]

\* A nullable value: None is null/undefined, Some(v) a present value.
None == <<>>
Some(v) == <<v>>

TerminalStatuses == {"completed", "failed", "cancelled", "incomplete"}

\* ------------------------------------------------------------------------
\* Identifiers (lib/openresponses/ids.ts)
\* ------------------------------------------------------------------------

\* newId(prefix): the prefix plus a fresh suffix; n is the number of ids
\* generated so far in the process, so every call gives a different id.
newId(prefix, n) == <<prefix, n + 1>>

\* ------------------------------------------------------------------------
\* State
\* ------------------------------------------------------------------------

VARIABLES
    request,             \* the parsed ResponsesRequest: store, stream, background
    pc,                  \* position of the request's task
    idCount,             \* number of ids generated so far (randomUUID calls)
    responseId,          \* streamResponse/backgroundResponse: const responseId
    messageId,           \* streamResponse: const messageId
    sequence,            \* let sequence
    accumulatedText,     \* let accumulatedText
    accumulatedThinking, \* let accumulatedThinking
    functionCalls,       \* const functionCalls (array of records)
    nextOutputIndex,     \* let nextOutputIndex
    responseUsage,       \* let responseUsage (nullable)
    textItemOpened,      \* let textItemOpened
    messageOutputIndex,  \* let messageOutputIndex
    partialUpdateTimer,  \* TRUE iff partialUpdateTimer !== null (a handle is held)
    armedTimers,         \* number of setTimeout callbacks armed in the event loop
    timerDue,            \* ticks until the armed callback is due
    elapsed,             \* ticks of time passed since the first text_delta
    wire,                \* what has been passed to write(), in order
    yielded,             \* the ProviderEvents the adapter has yielded so far
    pending,             \* arguments of the persistResponse call being awaited
    inflight,            \* persistPartialOutput calls issued, not yet executed
    rows,                \* the responses table: id -> row
    writes,              \* the statements executed on the responses table so far
    cancelPc,            \* position of the cancel request handler
    cancelRow,           \* the row the cancel handler has read
    cancelId,            \* the id in the cancel request's path, None before
    cancelCount,         \* number of cancel requests made
    cancelReply,         \* last HTTP reply of the cancel endpoint
    adapterOutcome,      \* how the adapter's stream ended, None while it runs
    httpResponse,        \* the JSON body runResponse returned, None if none yet
    deletePc,            \* position of the delete request handler
    deleteCount,         \* number of delete requests made
    deleteId,            \* the id in the delete request's path, None before
    deleteReply,         \* last HTTP reply of the delete endpoint
    responseObj,         \* nonStreamResponse: const responseObj, None before
    inputItems,          \* runResponse: const inputItems, None before step 2
    providerReq,         \* runResponse: messages and system of providerReq
    getCount,            \* number of GET requests made
    getReply,            \* last HTTP reply of the GET endpoint
    sinkClosed,          \* TRUE iff the stream's controller is closed
    adapterCache,        \* resolver: const adapterCache, adapter key -> instance
    adaptersCreated,     \* number of adapter instances constructed so far
    resolveCalls,        \* the resolveAdapter calls: position, model, result
    served,              \* history: id of each earlier response -> its request
    chatStream           \* OpenAICompatibleAdapter.chatStream: the generator's locals

accVars == <<sequence, accumulatedText, accumulatedThinking, functionCalls,
             nextOutputIndex, responseUsage, textItemOpened, messageOutputIndex>>
idVars == <<idCount, responseId, messageId>>
timerVars == <<partialUpdateTimer, armedTimers, timerDue, elapsed>>
dbVars == <<rows, writes>>
cancelVars == <<cancelPc, cancelRow, cancelId, cancelCount, cancelReply>>
deleteVars == <<deletePc, deleteCount, deleteId, deleteReply>>
endpointVars == <<cancelVars, httpResponse, deleteVars>>
getVars == <<getCount, getReply>>
resolverVars == <<adapterCache, adaptersCreated, resolveCalls>>
runVars == <<inputItems, providerReq, getVars, sinkClosed, resolverVars, served,
            chatStream>>
vars == <<request, runVars, responseObj, pc, idVars, accVars, timerVars, wire, yielded,
          pending, inflight, dbVars, endpointVars, adapterOutcome>>

\* ------------------------------------------------------------------------
\* SSE utilities (lib/openresponses/sse.ts)
\* ------------------------------------------------------------------------

\* sseEvent(eventType, data): one frame, "event: <eventType>" and the payload.
sseEvent(eventType, data) == [event |-> eventType] @@ data

\* write(data): controller.enqueue(data), which throws once the controller is
\* closed; the exception is swallowed and the frames are dropped.
writeAfterClose(closed, sent, frames) == sent \o frames

write(closed, sent, frames) == IF closed THEN sent ELSE sent \o frames

\* sseDone(): the terminal marker frame, "data: [DONE]".
sseDone == [data |-> "[DONE]"]

IsDone(frame) == "event" \notin DOMAIN frame

\* sseErrorPayload(type, message): code defaults to null; no sequence_number.
sseErrorPayload(type, message) ==
    [type |-> "error", error |-> [type |-> type, message |-> message, code |-> None]]

\* ------------------------------------------------------------------------
\* Response objects (lib/openresponses/response.ts)
\* ------------------------------------------------------------------------

\* createTextMessageItem(text): a completed message item with a fresh msg_ id.
createTextMessageItem(text, n) ==
    [type |-> "message", id |-> newId("msg_", n), status |-> "completed",
     role |-> "assistant",
     content |-> <<[type |-> "output_text", text |-> text, annotations |-> <<>>]>>]

\* createFunctionCallItem(name, args, callId): completed, fresh fc_ id.
createFunctionCallItem(name, args, callId, n) ==
    [type |-> "function_call", id |-> newId("fc_", n), call_id |-> callId,
     status |-> "completed", name |-> name, arguments |-> args]

\* createResponseObject(args): the response object, with a fresh resp_ id.
createResponseObject(status, output, usage, store, background, n) ==
    [id |-> newId("resp_", n), object |-> "response", status |-> status,
     output |-> output, usage |-> usage, error |-> None,
     incomplete_details |-> None, store |-> store, background |-> background]

\* Usage built from the provider's usage: total = input + output.
toUsage(u) ==
    [input_tokens |-> u.inputTokens, output_tokens |-> u.outputTokens,
     total_tokens |-> u.inputTokens + u.outputTokens]

\* ------------------------------------------------------------------------
\* Persistence helpers (orchestrator: persistResponse, persistPartialOutput)
\* ------------------------------------------------------------------------

\* request.model, for the requests whose model the specification leaves out.
modelOf(req) == IF "model" \in DOMAIN req THEN req.model ELSE "model"

\* request.metadata ?? {}
metadataOf(req) == IF "metadata" \in DOMAIN req THEN req.metadata ELSE <<>>

\* The row persistResponse inserts when the id is new.
insertValues(id, req, items, status, outputItems, usage, errorJson, incompleteDetailsJson) ==
    [id |-> id, status |-> status, model |-> modelOf(req),
     metadata |-> metadataOf(req), inputItemsJson |-> items,
     outputItemsJson |-> outputItems,
     usageJson |-> usage, store |-> TRUE, background |-> req.background,
     errorJson |-> errorJson, incompleteDetailsJson |-> incompleteDetailsJson,
     completedAt |-> IF status = "completed" THEN Some("now") ELSE None,
     cancelledAt |-> None]

\* The columns persistResponse overwrites when the id exists (onConflictDoUpdate).
conflictSet(row, status, outputItems, usage, errorJson, incompleteDetailsJson) ==
    [row EXCEPT !.status = status,
                !.outputItemsJson = outputItems,
                !.usageJson = usage,
                !.errorJson = errorJson,
                !.incompleteDetailsJson = incompleteDetailsJson,
                !.completedAt = IF status = "completed" THEN Some("now") ELSE None]

\* persistResponse: INSERT ... ON CONFLICT (id) DO UPDATE; a holds the call's
\* arguments, tbl the table; the result is the table after the statement.
persistResponse(tbl, a) ==
    IF a.id \in DOMAIN tbl
    THEN [tbl EXCEPT ![a.id] = conflictSet(@, a.status, a.outputItems, a.usage,
                                           a.errorJson, a.incompleteDetailsJson)]
    ELSE (a.id :> insertValues(a.id, a.request, a.inputItems, a.status,
                               a.outputItems, a.usage,
                               a.errorJson, a.incompleteDetailsJson)) @@ tbl

persistPartialOutputUnguarded(tbl, id, outputItems) ==
    IF id \in DOMAIN tbl
    THEN [tbl EXCEPT ![id].outputItemsJson = outputItems]
    ELSE tbl

\* persistPartialOutput: UPDATE ... SET output_items WHERE id = ? AND
\* status = 'in_progress'.
persistPartialOutput(tbl, id, outputItems) ==
    IF id \in DOMAIN tbl /\ tbl[id].status = "in_progress"
    THEN [tbl EXCEPT ![id].outputItemsJson = outputItems]
    ELSE tbl

\* runResponse's inputItems as an array: the items buildInputItems returned,
\* none in the runs that begin after that step.
itemsOf(built) == IF built = None THEN <<>> ELSE built[1]

\* The arguments of one persistResponse call.
PersistArgs(id, req, built, status, outputItems, usage, errorJson, incompleteDetailsJson) ==
    [id |-> id, request |-> req, inputItems |-> itemsOf(built), status |-> status,
     outputItems |-> outputItems,
     usage |-> usage, errorJson |-> errorJson,
     incompleteDetailsJson |-> incompleteDetailsJson]

\* ------------------------------------------------------------------------
\* streamResponse: closures over the stream's accumulators
\* ------------------------------------------------------------------------

nextSeqSkip(seq) == seq + 2

\* const nextSeq = () => ++sequence
nextSeq(seq) == seq + 1

\* One entry of functionCalls as an output item (collectOutputItems' loop body).
fcOutputItem(fc) ==
    [type |-> "function_call", id |-> fc.id, call_id |-> fc.callId,
     status |-> IF fc.done THEN "completed" ELSE "incomplete",
     name |-> fc.name, arguments |-> fc.arguments]

\* Number of ids collectOutputItems generates: createTextMessageItem's msg_ id
\* (then overwritten by messageId) and the reasoning item's rs_ id.
collectIds(opened, thinking) ==
    (IF opened THEN 1 ELSE 0) + (IF thinking # "" THEN 1 ELSE 0)

collectOutputItemsFreshMessageId(opened, text, thinking, fcs, mid, n) ==
    LET msg == IF opened THEN <<createTextMessageItem(text, n)>> ELSE <<>>
        calls == [i \in 1..Len(fcs) |-> fcOutputItem(fcs[i])]
        n2 == n + (IF opened THEN 1 ELSE 0)
        rs == IF thinking # ""
              THEN <<[type |-> "reasoning", id |-> newId("rs_", n2),
                      summary |-> <<[type |-> "summary_text", text |-> thinking]>>,
                      status |-> "completed", encrypted_content |-> None]>>
              ELSE <<>>
    IN rs \o msg \o calls

collectOutputItemsReasoningLast(opened, text, thinking, fcs, mid, n) ==
    LET msg == IF opened
               THEN <<[createTextMessageItem(text, n) EXCEPT !.id = mid]>>
               ELSE <<>>
        calls == [i \in 1..Len(fcs) |-> fcOutputItem(fcs[i])]
        n2 == n + (IF opened THEN 1 ELSE 0)
        rs == IF thinking # ""
              THEN <<[type |-> "reasoning", id |-> newId("rs_", n2),
                      summary |-> <<[type |-> "summary_text", text |-> thinking]>>,
                      status |-> "completed", encrypted_content |-> None]>>
              ELSE <<>>
    IN msg \o calls \o rs

\* collectOutputItems(): message (if opened), function calls in array order,
\* then the reasoning item unshifted to the head.
collectOutputItems(opened, text, thinking, fcs, mid, n) ==
    LET msg == IF opened
               THEN <<[createTextMessageItem(text, n) EXCEPT !.id = mid]>>
               ELSE <<>>
        calls == [i \in 1..Len(fcs) |-> fcOutputItem(fcs[i])]
        n2 == n + (IF opened THEN 1 ELSE 0)
        rs == IF thinking # ""
              THEN <<[type |-> "reasoning", id |-> newId("rs_", n2),
                      summary |-> <<[type |-> "summary_text", text |-> thinking]>>,
                      status |-> "completed", encrypted_content |-> None]>>
              ELSE <<>>
    IN rs \o msg \o calls

\* buildResponseObject(status): createResponseObject over the collected output.
buildResponseObject(status, usage, req, opened, text, thinking, fcs, mid, n) ==
    createResponseObject(status,
                         collectOutputItems(opened, text, thinking, fcs, mid, n),
                         usage, req.store, req.background,
                         n + collectIds(opened, thinking))

\* Number of ids one buildResponseObject call generates.
buildIds(opened, thinking) == collectIds(opened, thinking) + 1

\* The two frames ensureTextItemOpened writes when the item is not yet open.
textItemOpenFrames(seq, mid, idx) ==
    << sseEvent("response.output_item.added",
                [type |-> "response.output_item.added",
                 sequence_number |-> nextSeq(seq),
                 output_index |-> idx,
                 item |-> [type |-> "message", id |-> mid, status |-> "in_progress",
                           role |-> "assistant", content |-> <<>>]]),
       sseEvent("response.content_part.added",
                [type |-> "response.content_part.added",
                 sequence_number |-> nextSeq(nextSeq(seq)),
                 item_id |-> mid,
                 output_index |-> idx,
                 content_index |-> 0,
                 part |-> [type |-> "output_text", annotations |-> <<>>, text |-> ""]]) >>

ensureTextItemOpenedNoAdvance(opened, noi, moi, seq, mid) ==
    IF opened
    THEN [frames |-> <<>>, nextOutputIndex |-> noi, messageOutputIndex |-> moi,
          sequence |-> seq]
    ELSE [frames |-> textItemOpenFrames(seq, mid, noi),
          nextOutputIndex |-> noi, messageOutputIndex |-> noi,
          sequence |-> nextSeq(nextSeq(seq))]

\* ensureTextItemOpened(): no-op when open; else allocates the message's
\* output index and writes the two opening frames.
ensureTextItemOpened(opened, noi, moi, seq, mid) ==
    IF opened
    THEN [frames |-> <<>>, nextOutputIndex |-> noi, messageOutputIndex |-> moi,
          sequence |-> seq]
    ELSE [frames |-> textItemOpenFrames(seq, mid, noi),
          nextOutputIndex |-> noi + 1, messageOutputIndex |-> noi,
          sequence |-> nextSeq(nextSeq(seq))]

\* functionCalls.find((f) => f.callId === callId): index of the first match, 0 if none.
findCall(fcs, callId) ==
    IF \E i \in 1..Len(fcs) : fcs[i].callId = callId
    THEN CHOOSE i \in 1..Len(fcs) :
            /\ fcs[i].callId = callId
            /\ \A j \in 1..(i - 1) : fcs[j].callId # callId
    ELSE 0

allocOutputIndexFromAdapter(noi, adapterIndex) == adapterIndex

\* const fcOutputIndex = nextOutputIndex++ (the event's outputIndex is not read)
allocOutputIndex(noi, adapterIndex) == noi

prependDelta(text, delta) == delta \o text

\* accumulatedText += event.delta
appendDelta(text, delta) == text \o delta

\* err instanceof cls: every thrown Error object is an instance of Error.
instanceOf(err, cls) ==
    IF cls = "Error" THEN err.class # "NonError" ELSE err.class = cls

isAbortWithoutSdkCheck(err) ==
    \/ (instanceOf(err, "DOMException") /\ err.name = "AbortError")
    \/ (instanceOf(err, "Error") /\ err.name = "AbortError")

\* const isAbort = DOMException named AbortError, or Error named AbortError,
\* or an instance of OpenAI.APIUserAbortError (whose name stays "Error").
isAbort(err) ==
    \/ (instanceOf(err, "DOMException") /\ err.name = "AbortError")
    \/ (instanceOf(err, "Error") /\ err.name = "AbortError")
    \/ instanceOf(err, "APIUserAbortError")

errorMessageGeneric(err) == "Internal server error"

\* err instanceof Error ? err.message : "Internal server error"
errorMessageOf(err) ==
    IF instanceOf(err, "Error") THEN err.message ELSE "Internal server error"

\* schedulePartialUpdate(): re-arms the single timer when store=true.
schedulePartialUpdate(store, timer) == IF store THEN TRUE ELSE timer

\* cancelPartialUpdate(): clears the timer.
cancelPartialUpdate(timer) == FALSE

\* clearTimeout(partialUpdateTimer) when a handle is held: the armed callbacks
\* after it.
clearTimeout(timer, armed) == IF timer THEN armed - 1 ELSE armed

armedAfterScheduleAnyStore(store, timer, armed) == clearTimeout(timer, armed) + 1

armedAfterScheduleNoClear(store, timer, armed) ==
    IF store THEN armed + 1 ELSE armed

\* The armed callbacks after schedulePartialUpdate(): with store=true the held
\* handle is cleared, then setTimeout arms one callback.
armedAfterSchedule(store, timer, armed) ==
    IF store THEN clearTimeout(timer, armed) + 1 ELSE armed

\* The delay of schedulePartialUpdate's setTimeout (1000 ms), in ticks.
DebounceTicks == 2

\* The delay of the armed callback after schedulePartialUpdate().
dueAfterSchedule(store, due) == IF store THEN DebounceTicks ELSE due

\* The armed callbacks after cancelPartialUpdate().
armedAfterCancel(timer, armed) == clearTimeout(timer, armed)

\* ------------------------------------------------------------------------
\* Initial state: a validated request about to enter runResponse
\* ------------------------------------------------------------------------

StreamRequests == [store : BOOLEAN, stream : {TRUE}, background : {FALSE}]

InitAt(requests, tables, at) ==
    /\ request \in requests
    /\ pc = at
    /\ inputItems = None
    /\ providerReq = None
    /\ getCount = 0
    /\ getReply = None
    /\ sinkClosed = FALSE
    /\ adapterCache = <<>>
    /\ adaptersCreated = 0
    /\ resolveCalls = [c \in Callers |-> [pc |-> "idle"]]
    /\ served = <<>>
    /\ chatStream = [pc |-> "idle", chunks |-> <<>>, pendingToolCalls |-> <<>>,
                     toolCallOutputIndex |-> 0,
                     usage |-> [inputTokens |-> 0, outputTokens |-> 0],
                     finishReason |-> None]
    /\ idCount = 0
    /\ responseId = None
    /\ messageId = None
    /\ sequence = 0
    /\ accumulatedText = ""
    /\ accumulatedThinking = ""
    /\ functionCalls = <<>>
    /\ nextOutputIndex = 0
    /\ responseUsage = None
    /\ textItemOpened = FALSE
    /\ messageOutputIndex = -1
    /\ partialUpdateTimer = FALSE
    /\ armedTimers = 0
    /\ timerDue = 0
    /\ elapsed = 0
    /\ wire = <<>>
    /\ yielded = <<>>
    /\ pending = None
    /\ inflight = {}
    /\ rows \in tables
    /\ writes = {}
    /\ cancelPc = "idle"
    /\ cancelRow = None
    /\ cancelId = None
    /\ cancelCount = 0
    /\ cancelReply = None
    /\ adapterOutcome = None
    /\ httpResponse = None
    /\ deletePc = "idle"
    /\ deleteCount = 0
    /\ deleteId = None
    /\ deleteReply = None
    /\ responseObj = None

\* A validated request at runResponse's dispatch (steps 6 and 7).
InitWithTable(requests, tables) == InitAt(requests, tables, "start")

\* The state before a request when the table holds no row.
InitWith(requests) == InitWithTable(requests, {<<>>})

Init == InitWith(StreamRequests)

\* The awaited persistResponse statement reaches the database.
ExecPending ==
    /\ pending # None
    /\ rows' = persistResponse(rows, pending[1])
    /\ writes' = writes \cup {[op |-> "upsert", id |-> pending[1].id,
                                status |-> pending[1].status]}
    /\ pending' = None

\* ------------------------------------------------------------------------
\* streamResponse
\* ------------------------------------------------------------------------

\* runResponse step 7 -> streamResponse: ids, then the initial persist call.
StreamStart ==
    /\ pc = "start"
    /\ request.stream
    /\ ~(request.background /\ request.store)
    /\ responseId' = newId("resp_", idCount)
    /\ messageId' = newId("msg_", idCount + 1)
    /\ idCount' = idCount + 2
    /\ IF request.store
       THEN /\ pending' = Some(PersistArgs(responseId', request, inputItems, "in_progress",
                                           <<>>, None, None, None))
            /\ pc' = "init_persist"
       ELSE /\ pending' = pending
            /\ pc' = "open"
    /\ UNCHANGED <<request, runVars, responseObj, accVars, timerVars, wire, yielded, inflight,
                   dbVars, endpointVars, adapterOutcome>>

StreamInitPersistSkipped ==
    /\ pc = "init_persist"
    /\ pending' = None
    /\ pc' = "open"
    /\ UNCHANGED <<request, runVars, responseObj, idVars, accVars, timerVars, wire, yielded,
                   inflight, dbVars, endpointVars, adapterOutcome>>

\* await persistResponse(responseId, ..., "in_progress", [], null, createdAt)
StreamInitPersist ==
    /\ pc = "init_persist"
    /\ ExecPending
    /\ pc' = "open"
    /\ UNCHANGED <<request, runVars, responseObj, idVars, accVars, timerVars, wire, yielded,
                   inflight, endpointVars, adapterOutcome>>

\* start(controller): 1. Emit response.in_progress
StreamOpen ==
    /\ pc = "open"
    /\ sequence' = nextSeq(sequence)
    /\ wire' = write(sinkClosed, wire, <<
                 sseEvent("response.in_progress",
                          [type |-> "response.in_progress",
                           sequence_number |-> nextSeq(sequence),
                           response |-> [id |-> responseId, status |-> "in_progress"]])>>)
    /\ pc' = "streaming"
    /\ UNCHANGED <<request, runVars, responseObj, idVars, accumulatedText, accumulatedThinking,
                   functionCalls, nextOutputIndex, responseUsage, textItemOpened,
                   messageOutputIndex, timerVars, yielded, pending,
                   inflight, dbVars, endpointVars, adapterOutcome>>

\* The for-await loop is waiting for the adapter's next event.
Awaiting(limit) == pc = "streaming" /\ Len(yielded) < limit

\* case "text_delta"
TextDelta(delta, limit) ==
    /\ Awaiting(limit)
    /\ LET o == ensureTextItemOpened(textItemOpened, nextOutputIndex,
                                     messageOutputIndex, sequence, messageId)
       IN /\ textItemOpened' = TRUE
          /\ nextOutputIndex' = o.nextOutputIndex
          /\ messageOutputIndex' = o.messageOutputIndex
          /\ accumulatedText' = appendDelta(accumulatedText, delta)
          /\ sequence' = nextSeq(o.sequence)
          /\ wire' = write(sinkClosed, wire, o.frames \o
                     << sseEvent("response.output_text.delta",
                                 [type |-> "response.output_text.delta",
                                  sequence_number |-> nextSeq(o.sequence),
                                  item_id |-> messageId,
                                  output_index |-> o.messageOutputIndex,
                                  content_index |-> 0,
                                  delta |-> delta]) >>)
    /\ partialUpdateTimer' = schedulePartialUpdate(request.store, partialUpdateTimer)
    /\ armedTimers' = armedAfterSchedule(request.store, partialUpdateTimer,
                                         armedTimers)
    /\ timerDue' = dueAfterSchedule(request.store, timerDue)
    /\ elapsed' = elapsed
    /\ yielded' = Append(yielded, [type |-> "text_delta", delta |-> delta])
    /\ UNCHANGED <<request, runVars, responseObj, pc, idVars, accumulatedThinking, functionCalls,
                   responseUsage, pending, inflight, dbVars, endpointVars,
                   adapterOutcome>>

\* case "tool_call_start"
ToolCallStart(callId, name, adapterIndex, limit) ==
    /\ Awaiting(limit)
    /\ LET fcId == newId("fc_", idCount)
           fcOutputIndex == allocOutputIndex(nextOutputIndex, adapterIndex)
       IN /\ functionCalls' = Append(functionCalls,
                                [id |-> fcId, callId |-> callId, name |-> name,
                                 arguments |-> "", outputIndex |-> fcOutputIndex,
                                 done |-> FALSE])
          /\ wire' = write(sinkClosed, wire, <<
                       sseEvent("response.output_item.added",
                                [type |-> "response.output_item.added",
                                 sequence_number |-> nextSeq(sequence),
                                 output_index |-> fcOutputIndex,
                                 item |-> [type |-> "function_call", id |-> fcId,
                                           call_id |-> callId, status |-> "in_progress",
                                           name |-> name, arguments |-> ""]])>>)
    /\ idCount' = idCount + 1
    /\ nextOutputIndex' = nextOutputIndex + 1
    /\ sequence' = nextSeq(sequence)
    /\ yielded' = Append(yielded, [type |-> "tool_call_start", callId |-> callId,
                                   name |-> name, outputIndex |-> adapterIndex])
    /\ UNCHANGED <<request, runVars, responseObj, pc, responseId, messageId, accumulatedText,
                   accumulatedThinking, responseUsage, textItemOpened,
                   messageOutputIndex, timerVars, pending, inflight,
                   dbVars, endpointVars, adapterOutcome>>

\* case "tool_call_delta"
ToolCallDelta(callId, argumentsDelta, limit) ==
    /\ Awaiting(limit)
    /\ LET i == findCall(functionCalls, callId)
       IN functionCalls' = IF i # 0
                           THEN [functionCalls EXCEPT ![i].arguments = @ \o argumentsDelta]
                           ELSE functionCalls
    /\ yielded' = Append(yielded, [type |-> "tool_call_delta", callId |-> callId,
                                   argumentsDelta |-> argumentsDelta])
    /\ UNCHANGED <<request, runVars, responseObj, pc, idVars, sequence, accumulatedText,
                   accumulatedThinking, nextOutputIndex, responseUsage,
                   textItemOpened, messageOutputIndex, timerVars, wire,
                   pending, inflight, dbVars, endpointVars, adapterOutcome>>

markDoneKeepBuffer(fc, arguments) == [fc EXCEPT !.done = TRUE]

\* The function call record after tool_call_done: arguments overwritten, done.
markDone(fc, arguments) == [fc EXCEPT !.arguments = arguments, !.done = TRUE]

\* case "tool_call_done"
ToolCallDone(callId, arguments, adapterIndex, limit) ==
    /\ Awaiting(limit)
    /\ LET i == findCall(functionCalls, callId)
       IN IF i # 0
          THEN LET fc == markDone(functionCalls[i], arguments)
               IN /\ functionCalls' = [functionCalls EXCEPT ![i] = fc]
                  /\ sequence' = nextSeq(sequence)
                  /\ wire' = write(sinkClosed, wire, <<
                               sseEvent("response.output_item.done",
                                        [type |-> "response.output_item.done",
                                         sequence_number |-> nextSeq(sequence),
                                         output_index |-> fc.outputIndex,
                                         item |-> [type |-> "function_call",
                                                   id |-> fc.id,
                                                   call_id |-> fc.callId,
                                                   status |-> "completed",
                                                   name |-> fc.name,
                                                   arguments |-> fc.arguments]])>>)
          ELSE UNCHANGED <<functionCalls, sequence, wire>>
    /\ yielded' = Append(yielded, [type |-> "tool_call_done", callId |-> callId,
                                   arguments |-> arguments,
                                   outputIndex |-> adapterIndex])
    /\ UNCHANGED <<request, runVars, responseObj, pc, idVars, accumulatedText, accumulatedThinking,
                   nextOutputIndex, responseUsage, textItemOpened,
                   messageOutputIndex, timerVars, pending, inflight,
                   dbVars, endpointVars, adapterOutcome>>

\* case "thinking_delta"
ThinkingDelta(delta, limit) ==
    /\ Awaiting(limit)
    /\ accumulatedThinking' = accumulatedThinking \o delta
    /\ yielded' = Append(yielded, [type |-> "thinking_delta", delta |-> delta])
    /\ UNCHANGED <<request, runVars, responseObj, pc, idVars, sequence, accumulatedText, functionCalls,
                   nextOutputIndex, responseUsage, textItemOpened,
                   messageOutputIndex, timerVars, wire, pending,
                   inflight, dbVars, endpointVars, adapterOutcome>>

\* case "thinking_done"
ThinkingDone(text, limit) ==
    /\ Awaiting(limit)
    /\ accumulatedThinking' = text
    /\ yielded' = Append(yielded, [type |-> "thinking_done", text |-> text])
    /\ UNCHANGED <<request, runVars, responseObj, pc, idVars, sequence, accumulatedText, functionCalls,
                   nextOutputIndex, responseUsage, textItemOpened,
                   messageOutputIndex, timerVars, wire, pending,
                   inflight, dbVars, endpointVars, adapterOutcome>>

keepFreshId(obj, rid) == obj

\* completedResponse.id = responseId (likewise finalResponse, failedResponse)
overrideId(obj, rid) == [obj EXCEPT !.id = rid]

\* message_done: output_text.done, content_part.done, output_item.done(message).
closeFrames(seq, mid, idx, text) ==
         << sseEvent("response.output_text.done",
                     [type |-> "response.output_text.done",
                      sequence_number |-> nextSeq(seq),
                      item_id |-> mid,
                      output_index |-> idx,
                      content_index |-> 0,
                      text |-> text]),
            sseEvent("response.content_part.done",
                     [type |-> "response.content_part.done",
                      sequence_number |-> nextSeq(nextSeq(seq)),
                      item_id |-> mid,
                      output_index |-> idx,
                      content_index |-> 0,
                      part |-> [type |-> "output_text", annotations |-> <<>>,
                                text |-> text]]),
            sseEvent("response.output_item.done",
                     [type |-> "response.output_item.done",
                      sequence_number |-> nextSeq(nextSeq(nextSeq(seq))),
                      output_index |-> idx,
                      item |-> [type |-> "message", id |-> mid,
                                status |-> "completed", role |-> "assistant",
                                content |-> <<[type |-> "output_text",
                                               annotations |-> <<>>,
                                               text |-> text]>>]]) >>

textItemCloseFramesAlways(opened, seq, mid, idx, text) ==
    closeFrames(seq, mid, idx, text)

\* message_done, "Close the text part (only if text item was opened)".
textItemCloseFrames(opened, seq, mid, idx, text) ==
    IF opened THEN closeFrames(seq, mid, idx, text) ELSE <<>>

\* case "message_done"
MessageDone(usage, limit) ==
    /\ Awaiting(limit)
    /\ LET u == Some(toUsage(usage))
           close == textItemCloseFrames(textItemOpened, sequence, messageId,
                                        messageOutputIndex, accumulatedText)
           seq1 == IF textItemOpened
                   THEN nextSeq(nextSeq(nextSeq(sequence)))
                   ELSE sequence
           completedResponse ==
               overrideId(buildResponseObject("completed", u, request,
                                              textItemOpened, accumulatedText,
                                              accumulatedThinking, functionCalls,
                                              messageId, idCount),
                          responseId)
       IN /\ responseUsage' = u
          /\ sequence' = nextSeq(seq1)
          /\ wire' = write(sinkClosed, wire, close \o
                     << sseEvent("response.completed",
                                 [type |-> "response.completed",
                                  sequence_number |-> nextSeq(seq1),
                                  response |-> completedResponse]) >>)
    /\ idCount' = idCount + buildIds(textItemOpened, accumulatedThinking)
    /\ yielded' = Append(yielded, [type |-> "message_done", usage |-> usage])
    /\ UNCHANGED <<request, runVars, responseObj, pc, responseId, messageId, accumulatedText,
                   accumulatedThinking, functionCalls, nextOutputIndex,
                   textItemOpened, messageOutputIndex, timerVars,
                   pending, inflight, dbVars, endpointVars, adapterOutcome>>

\* The adapter's stream ends: cancelPartialUpdate, [DONE], then (store=true) the
\* final persistResponse call with buildResponseObject("completed").output.
AdapterEnd ==
    /\ pc = "streaming"
    /\ adapterOutcome' = Some(Ended)
    /\ partialUpdateTimer' = cancelPartialUpdate(partialUpdateTimer)
    /\ armedTimers' = armedAfterCancel(partialUpdateTimer, armedTimers)
    /\ UNCHANGED <<timerDue, elapsed>>
    /\ wire' = write(sinkClosed, wire, <<sseDone>>)
    /\ IF request.store
       THEN LET finalResponse ==
                    overrideId(buildResponseObject("completed", responseUsage,
                                                   request, textItemOpened,
                                                   accumulatedText,
                                                   accumulatedThinking,
                                                   functionCalls, messageId,
                                                   idCount),
                               responseId)
            IN /\ pending' = Some(PersistArgs(responseId, request, inputItems, "completed",
                                              finalResponse.output, responseUsage,
                                              None, None))
               /\ idCount' = idCount + buildIds(textItemOpened, accumulatedThinking)
               /\ pc' = "final_persist"
       ELSE /\ pc' = "closed"
            /\ UNCHANGED <<pending, idCount>>
    /\ UNCHANGED <<request, runVars, responseObj, responseId, messageId, accVars, yielded, inflight,
                   dbVars, endpointVars>>

\* await persistResponse(..., "completed", finalResponse.output, responseUsage, ...)
StreamFinalPersist ==
    /\ pc = "final_persist"
    /\ ExecPending
    /\ pc' = "closed"
    /\ UNCHANGED <<request, runVars, responseObj, idVars, accVars, timerVars, wire, yielded,
                   inflight, endpointVars, adapterOutcome>>

\* The adapter throws an abort error: cancelPartialUpdate, then (store=true)
\* persist "incomplete" before [DONE], else [DONE] at once.
AdapterAbort(err) ==
    /\ pc = "streaming"
    /\ isAbort(err)
    /\ adapterOutcome' = Some(Threw(err))
    /\ partialUpdateTimer' = cancelPartialUpdate(partialUpdateTimer)
    /\ armedTimers' = armedAfterCancel(partialUpdateTimer, armedTimers)
    /\ UNCHANGED <<timerDue, elapsed>>
    /\ IF request.store
       THEN /\ pending' = Some(PersistArgs(responseId, request, inputItems, "incomplete",
                                  collectOutputItems(textItemOpened, accumulatedText,
                                                     accumulatedThinking,
                                                     functionCalls, messageId,
                                                     idCount),
                                  responseUsage, None,
                                  Some([reason |-> "interrupted"])))
            /\ idCount' = idCount + collectIds(textItemOpened, accumulatedThinking)
            /\ pc' = "abort_persist"
            /\ wire' = wire
       ELSE /\ wire' = write(sinkClosed, wire, <<sseDone>>)
            /\ pc' = "closed"
            /\ UNCHANGED <<pending, idCount>>
    /\ UNCHANGED <<request, runVars, responseObj, responseId, messageId, accVars, yielded, inflight,
                   dbVars, endpointVars>>

StreamAbortPersistAfterDone ==
    /\ pc = "abort_persist"
    /\ pending' = None
    /\ wire' = write(sinkClosed, wire, <<sseDone>>)
    /\ pc' = "closed"
    /\ UNCHANGED <<request, runVars, responseObj, idVars, accVars, timerVars, yielded,
                   inflight, dbVars, endpointVars, adapterOutcome>>

\* await persistResponse(..., "incomplete", ...) ; write(sseDone())
StreamAbortPersist ==
    /\ pc = "abort_persist"
    /\ ExecPending
    /\ wire' = write(sinkClosed, wire, <<sseDone>>)
    /\ pc' = "closed"
    /\ UNCHANGED <<request, runVars, responseObj, idVars, accVars, timerVars, yielded,
                   inflight, endpointVars, adapterOutcome>>

\* The error payload of the failure path.
serverErrorOf(errorMessage) ==
    [type |-> "server_error", message |-> errorMessage, code |-> None]

failureFramesDoneEarly(seq, failedResponse, errorMessage) ==
    << sseEvent("error", sseErrorPayload("server_error", errorMessage)),
       sseDone,
       sseEvent("response.failed",
                [type |-> "response.failed",
                 sequence_number |-> nextSeq(seq),
                 response |-> failedResponse]) >>

\* The frames of the failure path: error, response.failed, [DONE].
failureFrames(seq, failedResponse, errorMessage) ==
    << sseEvent("error", sseErrorPayload("server_error", errorMessage)),
       sseEvent("response.failed",
                [type |-> "response.failed",
                 sequence_number |-> nextSeq(seq),
                 response |-> failedResponse]),
       sseDone >>

\* The adapter throws a non-abort error: cancelPartialUpdate, error,
\* response.failed, [DONE], then (store=true) the "failed" persist call.
AdapterError(err) ==
    /\ pc = "streaming"
    /\ ~isAbort(err)
    /\ adapterOutcome' = Some(Threw(err))
    /\ partialUpdateTimer' = cancelPartialUpdate(partialUpdateTimer)
    /\ armedTimers' = armedAfterCancel(partialUpdateTimer, armedTimers)
    /\ UNCHANGED <<timerDue, elapsed>>
    /\ LET errorMessage == errorMessageOf(err)
           built == overrideId(buildResponseObject("failed", responseUsage, request,
                                                   textItemOpened, accumulatedText,
                                                   accumulatedThinking,
                                                   functionCalls, messageId,
                                                   idCount),
                               responseId)
           failedResponse == [built EXCEPT !.error = Some(serverErrorOf(errorMessage))]
       IN wire' = write(sinkClosed, wire,
                        failureFrames(sequence, failedResponse, errorMessage))
    /\ sequence' = nextSeq(sequence)
    /\ idCount' = idCount + buildIds(textItemOpened, accumulatedThinking)
    /\ IF request.store
       THEN /\ pending' = Some(PersistArgs(responseId, request, inputItems, "failed", <<>>, None,
                                           Some(serverErrorOf(errorMessageOf(err))),
                                           None))
            /\ pc' = "fail_persist"
       ELSE /\ pc' = "closed"
            /\ pending' = pending
    /\ UNCHANGED <<request, runVars, responseObj, responseId, messageId, accumulatedText,
                   accumulatedThinking, functionCalls, nextOutputIndex,
                   responseUsage, textItemOpened, messageOutputIndex, yielded,
                   inflight, dbVars, endpointVars>>

\* await persistResponse(..., "failed", [], null, createdAt, error)
StreamFailPersist ==
    /\ pc = "fail_persist"
    /\ ExecPending
    /\ pc' = "closed"
    /\ UNCHANGED <<request, runVars, responseObj, idVars, accVars, timerVars, wire, yielded,
                   inflight, endpointVars, adapterOutcome>>

\* The debounce timer's callback: clears the handle and issues
\* persistPartialOutput(responseId, collectOutputItems()) without awaiting it.
TimerFire ==
    /\ armedTimers > 0
    /\ armedTimers' = armedTimers - 1
    /\ partialUpdateTimer' = FALSE
    /\ UNCHANGED <<timerDue, elapsed>>
    /\ inflight' = inflight \cup
                   {collectOutputItems(textItemOpened, accumulatedText,
                                       accumulatedThinking, functionCalls,
                                       messageId, idCount)}
    /\ idCount' = idCount + collectIds(textItemOpened, accumulatedThinking)
    /\ UNCHANGED <<request, runVars, responseObj, pc, responseId, messageId, accVars, wire, yielded,
                   pending, dbVars, endpointVars, adapterOutcome>>

\* An issued persistPartialOutput statement reaches the database.
PartialUpdateExec ==
    \E outputItems \in inflight :
        /\ inflight' = inflight \ {outputItems}
        /\ rows' = persistPartialOutput(rows, responseId, outputItems)
        /\ writes' = writes \cup {[op |-> "partial", id |-> responseId,
                                    status |-> "in_progress"]}
        /\ UNCHANGED <<request, runVars, responseObj, pc, idVars, accVars, timerVars, wire,
                       yielded, pending, endpointVars, adapterOutcome>>

\* ------------------------------------------------------------------------
\* Specification of one streaming request
\* ------------------------------------------------------------------------

AdapterYields(limit) ==
    \/ \E d \in TextDeltas : TextDelta(d, limit)
    \/ \E c \in ToolCalls, n \in ToolNames :
          ToolCallStart(c.callId, n, c.outputIndex, limit)
    \/ \E c \in CallIds, d \in ArgDeltas : ToolCallDelta(c, d, limit)
    \/ \E c \in ToolCalls, a \in FinalArgs :
          ToolCallDone(c.callId, a, c.outputIndex, limit)
    \/ \E d \in ThinkingDeltas : ThinkingDelta(d, limit)
    \/ \E t \in ThinkingTexts : ThinkingDone(t, limit)
    \/ \E u \in ProviderUsages : MessageDone(u, limit)

StreamTask ==
    \/ StreamStart
    \/ StreamInitPersist
    \/ StreamOpen
    \/ AdapterEnd
    \/ StreamFinalPersist
    \/ \E err \in ThrownErrors : AdapterAbort(err)
    \/ StreamAbortPersist
    \/ \E err \in ThrownErrors : AdapterError(err)
    \/ StreamFailPersist
    \/ TimerFire
    \/ PartialUpdateExec

Next == AdapterYields(MaxEvents) \/ StreamTask

Spec == Init /\ [][Next]_vars

\* ------------------------------------------------------------------------
\* Specification of one streaming request whose client may disconnect
\* ------------------------------------------------------------------------

\* The client disconnects: from now on controller.enqueue throws. The
\* request's signal is not aborted by this step and the adapter goes on.
SinkClose ==
    /\ request.stream
    /\ pc \in {"open", "streaming"}
    /\ ~sinkClosed
    /\ sinkClosed' = TRUE
    /\ UNCHANGED <<request, served, chatStream, inputItems, providerReq, getVars, resolverVars, responseObj,
                   pc, idVars,
                   accVars, timerVars, wire, yielded, pending, inflight, dbVars,
                   endpointVars, adapterOutcome>>

SinkYields(limit) ==
    \/ \E d \in {"Hel"} : TextDelta(d, limit)
    \/ \E c \in {"call_a"}, n \in ToolNames, i \in {0} :
          ToolCallStart(c, n, i, limit)
    \/ \E c \in {"call_a"}, a \in FinalArgs, i \in {0} :
          ToolCallDone(c, a, i, limit)
    \/ \E u \in ProviderUsages : MessageDone(u, limit)

NextSink ==
    \/ SinkYields(MaxEvents)
    \/ StreamTask
    \/ SinkClose

SpecSink == Init /\ [][NextSink]_vars

\* ------------------------------------------------------------------------
\* Specification of one streaming request with the passage of time
\* ------------------------------------------------------------------------

\* Largest number of ticks of time in the timed runs.
MaxTicks == 4

\* Largest number of ProviderEvents in the timed runs.
MaxTimedEvents == 4

\* One tick of time passes while the stream is open. Before the first
\* text_delta the passage of time changes nothing; a callback that is due runs
\* before more time passes.
Tick ==
    /\ pc = "streaming"
    /\ textItemOpened
    /\ elapsed < MaxTicks
    /\ ~(armedTimers > 0 /\ timerDue = 0)
    /\ elapsed' = elapsed + 1
    /\ timerDue' = IF armedTimers > 0 THEN timerDue - 1 ELSE timerDue
    /\ UNCHANGED <<request, runVars, responseObj, pc, idVars, accVars, partialUpdateTimer,
                   armedTimers, wire, yielded, pending, inflight, dbVars,
                   endpointVars, adapterOutcome>>

\* The debounce callback runs once its delay has passed.
TimerDueFire == timerDue = 0 /\ TimerFire

NextTimed ==
    \/ StreamStart
    \/ StreamInitPersist
    \/ StreamOpen
    \/ \E d \in TextDeltas : TextDelta(d, MaxTimedEvents)
    \/ \E u \in ProviderUsages : MessageDone(u, MaxTimedEvents)
    \/ AdapterEnd
    \/ StreamFinalPersist
    \/ Tick
    \/ TimerDueFire
    \/ PartialUpdateExec

SpecTimed == Init /\ [][NextTimed]_vars

\* ------------------------------------------------------------------------
\* POST /v1/responses/{id}/cancel
\* ------------------------------------------------------------------------

\* jsonError(status, type, message): param and code default to null.
jsonError(status, type, message) ==
    [status |-> status,
     error |-> [message |-> message, type |-> type, param |-> None, code |-> None]]

\* serverError(): 500 with the default message.
serverError == jsonError(500, "server_error", "Internal server error.")

\* badRequest(message, param), notImplemented(message)
badRequest(message, param) ==
    [jsonError(400, "invalid_request_error", message) EXCEPT !.error.param = param]

notImplemented(message) == jsonError(501, "not_implemented", message)

\* notFound(message), conflict(message)
notFound(message) == jsonError(404, "not_found", message)
conflict(message) == jsonError(409, "conflict", message)

\* The response object the cancel handler returns, built from the row it read.
cancelResponseObj(row) ==
    [id |-> row.id, object |-> "response", status |-> "cancelled",
     output |-> row.outputItemsJson, usage |-> row.usageJson,
     error |-> row.errorJson, incomplete_details |-> row.incompleteDetailsJson,
     store |-> row.store, background |-> row.background]

\* db.update(responses).set({status: "cancelled", cancelledAt: now}).where(id = ?)
cancelUpdate(tbl, id) ==
    IF id \in DOMAIN tbl
    THEN [tbl EXCEPT ![id].status = "cancelled", ![id].cancelledAt = Some("now")]
    ELSE tbl

cancellableStatusesWithCompleted == {"queued", "in_progress", "completed"}

\* const cancellableStatuses = new Set(["queued", "in_progress"])
cancellableStatuses == {"queued", "in_progress"}

\* The handler's SELECT for the id of the request's path, and its checks: 404,
\* 409 (not stored), 409 (status).
CancelSelect(id) ==
    /\ cancelPc = "idle"
    /\ cancelCount < MaxCancels
    /\ cancelCount' = cancelCount + 1
    /\ cancelId' = Some(id)
    /\ IF id \notin DOMAIN rows
       THEN /\ cancelReply' = Some(notFound(<<"Response '", id, "' not found.">>))
            /\ UNCHANGED <<cancelPc, cancelRow>>
       ELSE IF ~rows[id].store
       THEN /\ cancelReply'
               = Some(conflict("Cannot cancel a response that was not stored."))
            /\ UNCHANGED <<cancelPc, cancelRow>>
       ELSE IF rows[id].status \notin cancellableStatuses
       THEN /\ cancelReply'
               = Some(conflict(<<"Response '", id, "' has status '",
                                 rows[id].status, "' and cannot be cancelled.">>))
            /\ UNCHANGED <<cancelPc, cancelRow>>
       ELSE /\ cancelRow' = Some(rows[id])
            /\ cancelPc' = "update"
            /\ cancelReply' = None
    /\ UNCHANGED <<request, runVars, responseObj, pc, idVars, accVars, timerVars, wire, yielded,
                   pending, inflight, dbVars, adapterOutcome, httpResponse,
                   deleteVars>>

\* A cancel request for the response of the running request.
CancelRead == responseId # None /\ CancelSelect(responseId)

\* The handler's UPDATE, then its reply built from the row read before.
CancelUpdate ==
    /\ cancelPc = "update"
    /\ rows' = cancelUpdate(rows, cancelId[1])
    /\ writes' = writes \cup {[op |-> "cancel", id |-> cancelId[1],
                                status |-> "cancelled"]}
    /\ cancelReply' = Some([status |-> 200, body |-> cancelResponseObj(cancelRow[1])])
    /\ cancelPc' = "idle"
    /\ cancelRow' = None
    /\ UNCHANGED <<request, runVars, responseObj, pc, idVars, accVars, timerVars, wire, yielded,
                   pending, inflight, cancelId, cancelCount, adapterOutcome,
                   httpResponse, deleteVars>>

\* ------------------------------------------------------------------------
\* backgroundResponse
\* ------------------------------------------------------------------------

ProviderOutputItems ==
    {[type |-> "text", text |-> "Hello"],
     [type |-> "tool_use", callId |-> "call_a", name |-> "get_weather",
      arguments |-> "{}"],
     [type |-> "thinking", text |-> "because"]}

RECURSIVE SeqsUpTo(_, _)
SeqsUpTo(S, n) ==
    IF n = 0 THEN {<<>>}
    ELSE LET shorter == SeqsUpTo(S, n - 1)
         IN shorter \cup {Append(q, x) : q \in shorter, x \in S}

\* The final results adapter.chat may return.
ProviderFinalResults ==
    [messages : SeqsUpTo(ProviderOutputItems, MaxResultItems), usage : ProviderUsages]

\* The after() callback's loop over result.messages: text and tool_use items
\* only; every item takes one fresh id.
RECURSIVE backgroundOutputItems(_, _)
backgroundOutputItems(messages, n) ==
    IF messages = <<>> THEN <<>>
    ELSE LET msg == Head(messages)
         IN IF msg.type = "text"
            THEN <<createTextMessageItem(msg.text, n)>>
                 \o backgroundOutputItems(Tail(messages), n + 1)
            ELSE IF msg.type = "tool_use"
            THEN <<createFunctionCallItem(msg.name, msg.arguments, msg.callId, n)>>
                 \o backgroundOutputItems(Tail(messages), n + 1)
            ELSE backgroundOutputItems(Tail(messages), n)

\* runResponse step 6 -> backgroundResponse: id, then the initial persist call.
BackgroundStart ==
    /\ pc = "start"
    /\ request.background /\ request.store
    /\ responseId' = newId("resp_", idCount)
    /\ idCount' = idCount + 1
    /\ pending' = Some(PersistArgs(responseId', request, inputItems, "in_progress", <<>>, None,
                                   None, None))
    /\ pc' = "bg_init_persist"
    /\ UNCHANGED <<request, runVars, responseObj, messageId, accVars, timerVars, wire, yielded,
                   inflight, dbVars, endpointVars, adapterOutcome>>

\* await persistResponse(in_progress); inProgressObj; after(...); return JSON.
BackgroundRespond ==
    /\ pc = "bg_init_persist"
    /\ ExecPending
    /\ httpResponse' = Some([overrideId(createResponseObject("in_progress", <<>>, None,
                                                            request.store, TRUE,
                                                            idCount),
                                        responseId)
                             EXCEPT !.status = "in_progress"])
    /\ idCount' = idCount + 1
    /\ pc' = "bg_scheduled"
    /\ UNCHANGED <<request, runVars, responseObj, responseId, messageId, accVars, timerVars,
                   wire, yielded, inflight, cancelVars, deleteVars,
                   adapterOutcome>>

\* after(): adapter.chat resolves; the "completed" persist call is issued.
BackgroundChatOk(result) ==
    /\ pc = "bg_scheduled"
    /\ LET outputItems == backgroundOutputItems(result.messages, idCount)
       IN /\ pending' = Some(PersistArgs(responseId, request, inputItems, "completed",
                                         outputItems, Some(toUsage(result.usage)),
                                         None, None))
          /\ idCount' = idCount + Len(outputItems)
    /\ adapterOutcome' = Some(Returned(result))
    /\ pc' = "bg_persist"
    /\ UNCHANGED <<request, runVars, responseObj, responseId, messageId, accVars, timerVars,
                   wire, yielded, inflight, dbVars, endpointVars>>

\* err instanceof Error ? err.message : "Background task failed"
backgroundErrMsgGeneric(err) == "Background task failed"

\* err instanceof Error ? err.message : "Background task failed"
backgroundErrMsg(err) ==
    IF instanceOf(err, "Error") THEN err.message ELSE "Background task failed"

\* after(): adapter.chat rejects; the "failed" persist call is issued.
BackgroundChatFail(err) ==
    /\ pc = "bg_scheduled"
    /\ pending' = Some(PersistArgs(responseId, request, inputItems, "failed", <<>>, None,
                                   Some(serverErrorOf(backgroundErrMsg(err))), None))
    /\ adapterOutcome' = Some(Threw(err))
    /\ pc' = "bg_persist"
    /\ UNCHANGED <<request, runVars, responseObj, idVars, accVars, timerVars, wire, yielded,
                   inflight, dbVars, endpointVars>>

\* The background task's awaited persistResponse statement executes.
BackgroundPersist ==
    /\ pc = "bg_persist"
    /\ ExecPending
    /\ pc' = "closed"
    /\ UNCHANGED <<request, runVars, responseObj, idVars, accVars, timerVars, wire, yielded,
                   inflight, endpointVars, adapterOutcome>>

BackgroundTask ==
    \/ BackgroundStart
    \/ BackgroundRespond
    \/ \E r \in ProviderFinalResults : BackgroundChatOk(r)
    \/ \E err \in ThrownErrors : BackgroundChatFail(err)
    \/ BackgroundPersist

\* ------------------------------------------------------------------------
\* nonStreamResponse
\* ------------------------------------------------------------------------

\* nonStreamResponse's loop over result.messages: text and tool_use items are
\* pushed, a thinking item is unshifted as a reasoning item; the k-th message
\* takes the k-th fresh id.
RECURSIVE nonStreamOutputItems(_, _)
nonStreamOutputItems(messages, n) ==
    IF messages = <<>> THEN <<>>
    ELSE LET k == Len(messages)
             outputItems == nonStreamOutputItems(SubSeq(messages, 1, k - 1), n)
             msg == messages[k]
         IN IF msg.type = "text"
            THEN Append(outputItems, createTextMessageItem(msg.text, n + k - 1))
            ELSE IF msg.type = "tool_use"
            THEN Append(outputItems,
                        createFunctionCallItem(msg.name, msg.arguments, msg.callId,
                                               n + k - 1))
            ELSE IF msg.type = "thinking"
            THEN <<[type |-> "reasoning", id |-> newId("rs_", n + k - 1),
                    summary |-> <<[type |-> "summary_text", text |-> msg.text]>>,
                    status |-> "completed", encrypted_content |-> None]>>
                 \o outputItems
            ELSE outputItems

\* runResponse step 7 -> nonStreamResponse: adapter.chat resolves; output items,
\* usage and responseObj are built; store=true issues the persist call under
\* responseObj.id, store=false returns the JSON at once.
SyncChatOk(result) ==
    /\ pc = "start"
    /\ ~request.stream
    /\ ~(request.background /\ request.store)
    /\ LET outputItems == nonStreamOutputItems(result.messages, idCount)
           usage == Some(toUsage(result.usage))
           obj == createResponseObject("completed", outputItems, usage,
                                       request.store, request.background,
                                       idCount + Len(result.messages))
       IN /\ responseObj' = Some(obj)
          /\ responseId' = obj.id
          /\ IF request.store
             THEN /\ pending' = Some(PersistArgs(obj.id, request, inputItems, "completed",
                                                 outputItems, usage, None, None))
                  /\ pc' = "sync_persist"
                  /\ httpResponse' = httpResponse
             ELSE /\ pending' = pending
                  /\ pc' = "closed"
                  /\ httpResponse' = Some(obj)
    /\ idCount' = idCount + Len(result.messages) + 1
    /\ adapterOutcome' = Some(Returned(result))
    /\ UNCHANGED <<request, runVars, messageId, accVars, timerVars, wire, yielded,
                   inflight, dbVars, cancelVars, deleteVars>>

\* await persistResponse(responseObj.id, ..., "completed", ...); return the JSON.
SyncPersist ==
    /\ pc = "sync_persist"
    /\ ExecPending
    /\ httpResponse' = responseObj
    /\ pc' = "closed"
    /\ UNCHANGED <<request, runVars, responseObj, idVars, accVars, timerVars, wire,
                   yielded, inflight, cancelVars, deleteVars, adapterOutcome>>

SyncChatFailWithMessage(err) ==
    /\ pc = "start"
    /\ ~request.stream
    /\ ~(request.background /\ request.store)
    /\ adapterOutcome' = Some(Threw(err))
    /\ httpResponse' = Some(jsonError(500, "server_error", errorMessageOf(err)))
    /\ pc' = "closed"
    /\ UNCHANGED <<request, runVars, responseObj, idVars, accVars, timerVars, wire,
                   yielded, pending, inflight, dbVars, cancelVars, deleteVars>>

\* adapter.chat rejects: the error leaves runResponse and the route answers
\* serverError().
SyncChatFail(err) ==
    /\ pc = "start"
    /\ ~request.stream
    /\ ~(request.background /\ request.store)
    /\ adapterOutcome' = Some(Threw(err))
    /\ httpResponse' = Some(serverError)
    /\ pc' = "closed"
    /\ UNCHANGED <<request, runVars, responseObj, idVars, accVars, timerVars, wire,
                   yielded, pending, inflight, dbVars, cancelVars, deleteVars>>

SyncTask ==
    \/ \E r \in ProviderFinalResults : SyncChatOk(r)
    \/ SyncPersist
    \/ \E err \in ThrownErrors : SyncChatFail(err)

\* ------------------------------------------------------------------------
\* Specification of a stored request racing with the cancel endpoint
\* ------------------------------------------------------------------------

RaceRequests ==
    {r \in [store : {TRUE}, stream : BOOLEAN, background : BOOLEAN] :
        r.stream # r.background}

RaceYields(limit) ==
    \/ \E d \in {"Hel"} : TextDelta(d, limit)
    \/ \E c \in {"call_a"}, n \in ToolNames, i \in {0} :
          ToolCallStart(c, n, i, limit)
    \/ \E u \in ProviderUsages : MessageDone(u, limit)

InitRace == InitWith(RaceRequests)

NextRace ==
    \/ RaceYields(MaxRaceEvents)
    \/ StreamTask
    \/ BackgroundTask
    \/ CancelRead
    \/ CancelUpdate

SpecRace == InitRace /\ [][NextRace]_vars

\* ------------------------------------------------------------------------
\* Specification of one request of any kind (runResponse's dispatch)
\* ------------------------------------------------------------------------

AllRequests == [store : BOOLEAN, stream : BOOLEAN, background : BOOLEAN]

InitAll == InitWith(AllRequests)

NextAll ==
    \/ RaceYields(MaxRaceEvents)
    \/ StreamTask
    \/ BackgroundTask
    \/ SyncTask

SpecAll == InitAll /\ [][NextAll]_vars

\* runResponse's dispatch where every step of the background task that can be
\* taken is eventually taken: the provider call terminates and the awaited
\* row writes complete.
SpecAllFair == SpecAll /\ WF_vars(BackgroundTask)

\* ------------------------------------------------------------------------
\* DELETE /v1/responses/{id}
\* ------------------------------------------------------------------------

\* Largest number of requests sent to the delete endpoint.
MaxDeletes == 1

\* db.delete(responses).where(id = ?)
deleteRow(tbl, id) == [i \in DOMAIN tbl \ {id} |-> tbl[i]]

\* The handler's SELECT for the id of the request's path: 404 when no row has it.
DeleteSelect(id) ==
    /\ deletePc = "idle"
    /\ deleteCount < MaxDeletes
    /\ deleteCount' = deleteCount + 1
    /\ deleteId' = Some(id)
    /\ IF id \notin DOMAIN rows
       THEN /\ deleteReply' = Some(notFound(<<"Response '", id, "' not found.">>))
            /\ deletePc' = deletePc
       ELSE /\ deleteReply' = None
            /\ deletePc' = "delete"
    /\ UNCHANGED <<request, runVars, responseObj, pc, idVars, accVars, timerVars, wire, yielded,
                   pending, inflight, dbVars, cancelVars, adapterOutcome,
                   httpResponse>>

\* A delete request for the response of the running request.
DeleteRead == responseId # None /\ DeleteSelect(responseId)

\* The handler's DELETE, then its reply {id, object, deleted: true}.
DeleteExec ==
    /\ deletePc = "delete"
    /\ rows' = deleteRow(rows, deleteId[1])
    /\ writes' = writes \cup {[op |-> "delete", id |-> deleteId[1],
                                status |-> "deleted"]}
    /\ deleteReply' = Some([status |-> 200,
                            body |-> [id |-> deleteId[1], object |-> "response",
                                      deleted |-> TRUE]])
    /\ deletePc' = "idle"
    /\ UNCHANGED <<request, runVars, responseObj, pc, idVars, accVars, timerVars, wire, yielded,
                   pending, inflight, cancelVars, adapterOutcome, httpResponse,
                   deleteCount, deleteId>>

\* ------------------------------------------------------------------------
\* GET /v1/responses/{id}
\* ------------------------------------------------------------------------

\* Largest number of requests sent to the GET endpoint.
MaxGets == 1

rowToResponseObjectAsCancelled(row) ==
    [id |-> row.id, object |-> "response", status |-> "cancelled",
     model |-> row.model, output |-> row.outputItemsJson,
     metadata |-> row.metadata, usage |-> row.usageJson,
     error |-> row.errorJson, incomplete_details |-> row.incompleteDetailsJson,
     store |-> row.store, background |-> row.background]

\* rowToResponseObject(row): the response object rebuilt from a row. A null
\* JSON column and its default (?? [], ?? {}, ?? null) are the same value
\* here: the empty sequence, the empty record and None are all <<>>.
rowToResponseObject(row) ==
    [id |-> row.id, object |-> "response", status |-> row.status,
     model |-> row.model, output |-> row.outputItemsJson,
     metadata |-> row.metadata, usage |-> row.usageJson,
     error |-> row.errorJson, incomplete_details |-> row.incompleteDetailsJson,
     store |-> row.store, background |-> row.background]

\* The handler: one SELECT by id, then 404 or the rebuilt response object.
GetSelect(id) ==
    /\ getCount < MaxGets
    /\ getCount' = getCount + 1
    /\ getReply' = IF id \notin DOMAIN rows
                   THEN Some(notFound(<<"Response '", id, "' not found.">>))
                   ELSE Some([status |-> 200, body |-> rowToResponseObject(rows[id])])
    /\ UNCHANGED <<request, served, chatStream, inputItems, providerReq, sinkClosed, resolverVars, responseObj,
                   pc, idVars,
                   accVars, timerVars, wire, yielded, pending, inflight, dbVars,
                   endpointVars, adapterOutcome>>

\* A GET request for the response of the running request.
GetRead == responseId # None /\ GetSelect(responseId)

\* The requests that store their response, with their model and metadata.
Models == {"claude-sonnet"}
Metadatas == {<<>>, [user |-> "u1"]}

GetRequests ==
    {r @@ [model |-> m, metadata |-> md] :
        r \in RaceRequests, m \in Models, md \in Metadatas}

InitGet == InitWith(GetRequests)

NextGet ==
    \/ RaceYields(MaxRaceEvents)
    \/ StreamTask
    \/ BackgroundTask
    \/ CancelRead
    \/ CancelUpdate
    \/ GetRead

SpecGet == InitGet /\ [][NextGet]_vars

\* ------------------------------------------------------------------------
\* Specification of a stored request racing with the cancel and delete
\* endpoints
\* ------------------------------------------------------------------------

NextStore ==
    \/ RaceYields(MaxRaceEvents)
    \/ StreamTask
    \/ BackgroundTask
    \/ CancelRead
    \/ CancelUpdate
    \/ DeleteRead
    \/ DeleteExec

SpecStore == InitRace /\ [][NextStore]_vars

\* The same request with the GET endpoint read as well.
NextStoreGet ==
    \/ NextStore
    \/ GetRead

SpecStoreGet == InitRace /\ [][NextStoreGet]_vars

\* ------------------------------------------------------------------------
\* Specification of the /v1/responses/{id} endpoints over a stored table
\* ------------------------------------------------------------------------

\* The id of a response stored before, and an id no row has.
PrevId == <<"resp_", 0>>
UnknownId == <<"resp_", -1>>

RowStatuses == {"queued", "in_progress"} \cup TerminalStatuses

\* The rows the table may hold for PrevId when a request arrives. The schema
\* admits every status and both values of store (its default is false).
PriorRows ==
    {[id |-> PrevId, status |-> st, outputItemsJson |-> <<>>, usageJson |-> None,
      store |-> sto, background |-> FALSE, errorJson |-> None,
      incompleteDetailsJson |-> None,
      completedAt |-> IF st = "completed" THEN Some("now") ELSE None,
      cancelledAt |-> IF st = "cancelled" THEN Some("now") ELSE None] :
        st \in RowStatuses, sto \in BOOLEAN}

PriorTables == {<<>>} \cup {(PrevId :> row) @@ <<>> : row \in PriorRows}

\* The ids the endpoints are called with.
PathIds == {PrevId, UnknownId}

\* No request is running: a validated request that has not entered runResponse.
IdleRequests == {[store |-> TRUE, stream |-> FALSE, background |-> FALSE]}

InitEndpoints == InitWithTable(IdleRequests, PriorTables)

NextEndpoints ==
    \/ \E id \in PathIds : CancelSelect(id)
    \/ CancelUpdate
    \/ \E id \in PathIds : DeleteSelect(id)
    \/ DeleteExec

SpecEndpoints == InitEndpoints /\ [][NextEndpoints]_vars

\* ------------------------------------------------------------------------
\* buildInputItems (resolve previous_response_id)
\* ------------------------------------------------------------------------

\* The Response buildInputItems throws: status and error body.
thrownResponse(status, type, message) ==
    [status |-> status,
     error |-> [message |-> message, type |-> type,
                param |-> Some("previous_response_id"), code |-> None]]

\* The content of a message item is a string or an array of content parts.
\* A string s is written StringContent(s) and an array as the sequence of its
\* parts, so that typeof content === "string" is the test IsString.
StringContent(s) == <<[type |-> "string", value |-> s]>>
IsString(content) == Len(content) = 1 /\ content[1].type = "string"

normalizeCurrentInputKeepingReferences(input) ==
    IF input.kind = "string"
    THEN IF input.value # ""
         THEN <<[type |-> "message", role |-> "user",
                 content |-> StringContent(input.value)]>>
         ELSE <<>>
    ELSE input.items

\* "Normalize current input": a non-empty string becomes one user message,
\* an array is copied without its item_reference entries.
normalizeCurrentInput(input) ==
    IF input.kind = "string"
    THEN IF input.value # ""
         THEN <<[type |-> "message", role |-> "user",
                 content |-> StringContent(input.value)]>>
         ELSE <<>>
    ELSE SelectSeq(input.items, LAMBDA item : item.type # "item_reference")

seedOutputFirst(prev) == prev.outputItemsJson \o prev.inputItemsJson

\* inputItems = [...prevInput, ...prevOutput]
seed(prev) == prev.inputItemsJson \o prev.outputItemsJson

\* buildInputItems(request) over the table: the thrown Response, or the items.
buildInputItems(tbl, req) ==
    LET pid == req.previous_response_id
    IN IF pid = None
       THEN [ok |-> TRUE, items |-> normalizeCurrentInput(req.input)]
       ELSE IF pid[1] \notin DOMAIN tbl
       THEN [ok |-> FALSE,
             response |-> thrownResponse(404, "not_found",
                                         <<"Response '", pid[1], "' not found.">>)]
       ELSE IF ~tbl[pid[1]].store
       THEN [ok |-> FALSE,
             response |-> thrownResponse(400, "invalid_request_error",
                              "Cannot reference a response that was not stored.")]
       ELSE [ok |-> TRUE,
             items |-> seed(tbl[pid[1]]) \o normalizeCurrentInput(req.input)]

\* runResponse step 2: const inputItems = await buildInputItems(request); a
\* thrown Response leaves runResponse and the route returns it.
BuildInputItems ==
    /\ pc = "assemble"
    /\ LET built == buildInputItems(rows, request)
       IN IF built.ok
          THEN /\ inputItems' = Some(built.items)
               /\ pc' = "convert"
               /\ httpResponse' = httpResponse
          ELSE /\ inputItems' = inputItems
               /\ pc' = "closed"
               /\ httpResponse' = Some(built.response)
    /\ UNCHANGED <<request, served, chatStream, providerReq, getVars, sinkClosed, resolverVars, responseObj, idVars, accVars,
                   timerVars, wire, yielded, pending, inflight, dbVars, cancelVars,
                   deleteVars, adapterOutcome>>

\* ------------------------------------------------------------------------
\* Input item conversion -> ProviderMessage[]
\* ------------------------------------------------------------------------

\* The data: URLs that match /^data:([^;]+);base64,(.+)$/, with the two
\* groups of the match; every other string does not match.
DataUrlMatches ==
    ("data:image/png;base64,AAAA" :> [mediaType |-> "image/png", data |-> "AAAA"])

\* imageUrl.startsWith("data:")
DataUrls == DOMAIN DataUrlMatches \cup {"data:broken"}

\* The argument strings JSON.parse accepts, with the value it returns.
JsonValues == ("{\"city\":\"NYC\"}" :> [city |-> "NYC"])

\* try { parsedInput = JSON.parse(args) } catch { parsedInput = args }
parseArguments(args) ==
    IF args \in DOMAIN JsonValues
    THEN [json |-> JsonValues[args]]
    ELSE [raw |-> args]

IsTextPart(part) == part.type \in {"input_text", "output_text", "text"}

\* Array.prototype.join("\n") over a sequence of strings.
RECURSIVE joinLines(_)
joinLines(texts) ==
    IF texts = <<>> THEN ""
    ELSE IF Len(texts) = 1 THEN texts[1]
    ELSE texts[1] \o "\n" \o joinLines(Tail(texts))

\* extractTextFromContent: the string itself, or the non-empty texts of the
\* array's text parts joined with newlines.
extractTextFromContent(content) ==
    IF IsString(content)
    THEN content[1].value
    ELSE LET mapped == [k \in DOMAIN content |->
                           IF IsTextPart(content[k]) THEN content[k].text ELSE ""]
         IN joinLines(SelectSeq(mapped, LAMBDA t : t # ""))

\* The parts one content part of an array converts to (none or one).
convertPart(part) ==
    IF IsTextPart(part)
    THEN <<[type |-> "text", text |-> part.text]>>
    ELSE IF part.type = "input_image" /\ part.image_url # None /\ part.image_url[1] # ""
    THEN LET imageUrl == part.image_url[1]
         IN IF imageUrl \in DataUrls
            THEN IF imageUrl \in DOMAIN DataUrlMatches
                 THEN <<[type |-> "image",
                         source |-> [type |-> "base64"] @@ DataUrlMatches[imageUrl]]>>
                 ELSE <<>>
            ELSE <<[type |-> "image", source |-> [type |-> "url", url |-> imageUrl]]>>
    ELSE <<>>

RECURSIVE convertParts(_)
convertParts(content) ==
    IF content = <<>> THEN <<>>
    ELSE convertPart(Head(content)) \o convertParts(Tail(content))

\* convertContentToParts: a non-empty string is one text part, an empty string
\* nothing; an array converts part by part.
convertContentToParts(content) ==
    IF IsString(content)
    THEN IF content[1].value # ""
         THEN <<[type |-> "text", text |-> content[1].value]>>
         ELSE <<>>
    ELSE convertParts(content)

toolUsePart(item) ==
    [type |-> "tool_use", callId |-> item.call_id, name |-> item.name,
     input |-> parseArguments(item.arguments)]

toolResultPart(item) ==
    [type |-> "tool_result", callId |-> item.call_id, content |-> item.output]

\* last.content.push(part) on the last message of the list.
pushToFirst(messages, part) ==
    [messages EXCEPT ![1].content = Append(@, part)]

pushToLast(messages, part) ==
    [messages EXCEPT ![Len(messages)].content = Append(@, part)]

\* system ? `${system}\n${text}` : text, where undefined and "" are falsy.
hoist(system, text) ==
    IF system # None /\ system[1] # ""
    THEN Some(system[1] \o "\n" \o text)
    ELSE Some(text)

\* One iteration of convertToProviderMessages' loop, on the item and the
\* messages and system built so far.
convertItem(acc, item) ==
    LET messages == acc.messages
        itemType == IF "type" \in DOMAIN item THEN item.type ELSE "message"
        hasLast == messages # <<>>
        last == messages[Len(messages)]
    IN IF itemType = "message"
       THEN IF item.role \in {"system", "developer"}
            THEN [acc EXCEPT !.system = hoist(@, extractTextFromContent(item.content))]
            ELSE LET parts == convertContentToParts(item.content)
                 IN IF Len(parts) > 0
                    THEN [acc EXCEPT !.messages =
                             Append(@, [role |-> IF item.role = "assistant"
                                                 THEN "assistant" ELSE "user",
                                        content |-> parts])]
                    ELSE acc
       ELSE IF itemType = "function_call"
       THEN IF hasLast /\ last.role = "assistant"
            THEN [acc EXCEPT !.messages = pushToLast(@, toolUsePart(item))]
            ELSE [acc EXCEPT !.messages =
                     Append(@, [role |-> "assistant", content |-> <<toolUsePart(item)>>])]
       ELSE IF itemType = "function_call_output"
       THEN IF /\ hasLast
               /\ last.role = "user"
               /\ \E k \in DOMAIN last.content : last.content[k].type = "tool_result"
            THEN [acc EXCEPT !.messages = pushToLast(@, toolResultPart(item))]
            ELSE [acc EXCEPT !.messages =
                     Append(@, [role |-> "user", content |-> <<toolResultPart(item)>>])]
       ELSE acc

RECURSIVE convertLoop(_, _)
convertLoop(acc, items) ==
    IF items = <<>> THEN acc
    ELSE convertLoop(convertItem(acc, Head(items)), Tail(items))

\* convertToProviderMessages(inputItems, instructions): { messages, system }.
convertToProviderMessages(items, instructions) ==
    convertLoop([messages |-> <<>>,
                 system |-> IF instructions # None /\ instructions[1] # ""
                            THEN instructions ELSE None],
                items)

\* request.instructions, absent from the requests that do not set it.
instructionsOf(req) ==
    IF "instructions" \in DOMAIN req THEN req.instructions ELSE None

\* runResponse step 3: const { messages, system } = convertToProviderMessages(...)
ConvertToProviderMessages ==
    /\ pc = "convert"
    /\ providerReq' = Some(convertToProviderMessages(inputItems[1],
                                                     instructionsOf(request)))
    /\ pc' = "start"
    /\ UNCHANGED <<request, served, chatStream, inputItems, getVars, sinkClosed, resolverVars, responseObj, idVars, accVars,
                   timerVars, wire, yielded, pending, inflight, dbVars,
                   endpointVars, adapterOutcome>>

\* ------------------------------------------------------------------------
\* Specification of a synchronous request that may name a previous response
\* ------------------------------------------------------------------------

\* Input items of the stored conversation and of the current request.
PrevInputItem ==
    [type |-> "message", role |-> "user", content |-> StringContent("first question")]
PrevOutputItem ==
    [type |-> "message", id |-> <<"msg_", 0>>, status |-> "completed",
     role |-> "assistant",
     content |-> <<[type |-> "output_text", text |-> "partial ans",
                    annotations |-> <<>>]>>]
CurrentItem == [type |-> "message", role |-> "user", content |-> StringContent("go on")]
ItemReference == [type |-> "item_reference", id |-> <<"msg_", 0>>]

\* request.input: a string or an array of input items.
CurrentInputs ==
    {[kind |-> "string", value |-> v] : v \in {"", "go on"}}
    \cup {[kind |-> "array", items |-> q] :
             q \in {<<>>, <<CurrentItem>>, <<ItemReference, CurrentItem>>}}

\* The rows the table may hold for PrevId, with their stored input items.
AssembleRows ==
    {[row EXCEPT !.outputItemsJson = out] @@ [inputItemsJson |-> <<PrevInputItem>>] :
        row \in PriorRows, out \in {<<>>, <<PrevOutputItem>>}}

AssembleTables == {<<>>} \cup {(PrevId :> row) @@ <<>> : row \in AssembleRows}

AssembleRequests ==
    [store : BOOLEAN, stream : {FALSE}, background : {FALSE},
     previous_response_id : {None, Some(PrevId), Some(UnknownId)},
     input : CurrentInputs]

InitAssemble == InitAt(AssembleRequests, AssembleTables, "assemble")

NextAssemble ==
    \/ BuildInputItems
    \/ ConvertToProviderMessages
    \/ SyncTask

SpecAssemble == InitAssemble /\ [][NextAssemble]_vars

\* ------------------------------------------------------------------------
\* Specification of a chain of requests served one after another
\* ------------------------------------------------------------------------

\* Largest number of requests of one chain.
MaxChain == 3

\* request.input of the requests of a chain.
ChainInputs ==
    {[kind |-> "string", value |-> "go on"],
     [kind |-> "string", value |-> ""],
     [kind |-> "array", items |-> <<ItemReference, CurrentItem>>]}

\* The requests that may follow when the ids in known have been returned.
ChainRequests(known) ==
    [store : BOOLEAN, stream : {FALSE}, background : {FALSE},
     previous_response_id : {None} \cup {Some(id) : id \in known},
     input : ChainInputs]

\* The final results adapter.chat returns in a chain.
ChainResults ==
    [messages : {<<[type |-> "text", text |-> "Hello"]>>,
                 <<[type |-> "thinking", text |-> "because"],
                   [type |-> "tool_use", callId |-> "call_a",
                    name |-> "get_weather", arguments |-> "{}"]>>},
     usage : ProviderUsages]

\* The next request enters runResponse after the earlier one was answered; it
\* may name any response id returned so far. The table and the id generator
\* are kept, the state of the earlier request is left behind.
ChainNext ==
    /\ pc = "closed"
    /\ pending = None
    /\ Len(served) < MaxChain - 1
    /\ served' = Append(served, [id |-> responseId, request |-> request])
    /\ \E req \in ChainRequests({served'[k].id : k \in DOMAIN served'} \ {None}) :
          request' = req
    /\ pc' = "assemble"
    /\ inputItems' = None
    /\ providerReq' = None
    /\ responseObj' = None
    /\ responseId' = None
    /\ httpResponse' = None
    /\ adapterOutcome' = None
    /\ UNCHANGED <<getVars, sinkClosed, resolverVars, chatStream, idCount, messageId,
                   accVars,
                   timerVars, wire, yielded, pending, inflight, dbVars, cancelVars,
                   deleteVars>>

InitChain == InitAt(ChainRequests({}), {<<>>}, "assemble")

NextChain ==
    \/ BuildInputItems
    \/ ConvertToProviderMessages
    \/ \E r \in ChainResults : SyncChatOk(r)
    \/ SyncPersist
    \/ ChainNext

SpecChain == InitChain /\ [][NextChain]_vars

\* ------------------------------------------------------------------------
\* OpenAICompatibleAdapter.chatStream (lib/providers/openai-compatible)
\* ------------------------------------------------------------------------

\* Largest number of chunks the upstream sends before its stream ends.
MaxChunks == 3

\* mapStopReason(finishReason)
mapStopReason(finishReason) ==
    IF finishReason = Some("stop") THEN "end_turn"
    ELSE IF finishReason = Some("tool_calls") THEN "tool_use"
    ELSE IF finishReason = Some("length") THEN "max_tokens"
    ELSE "end_turn"

\* x ?? 0
orZero(x) == IF x = None THEN 0 ELSE x[1]

\* pendingToolCalls.get(idx): the position of the entry, 0 when there is none.
mapGet(m, key) ==
    IF \E i \in DOMAIN m : m[i].key = key
    THEN CHOOSE i \in DOMAIN m : m[i].key = key
    ELSE 0

\* pendingToolCalls.set(idx, entry): a Map keeps one entry per key, at the
\* place where the key was first inserted.
mapSet(m, key, entry) ==
    IF mapGet(m, key) # 0
    THEN [m EXCEPT ![mapGet(m, key)] = [key |-> key] @@ entry]
    ELSE Append(m, [key |-> key] @@ entry)

\* One entry tc of delta.tool_calls. An absent id, name or arguments is
\* written "": the code reads them through truthiness tests and ?? "".
processToolCall(acc, tc) ==
    IF tc.id # ""
    THEN [pendingToolCalls |->
              mapSet(acc.pendingToolCalls, tc.index,
                     [callId |-> tc.id, name |-> tc.name,
                      arguments |-> tc.arguments,
                      outputIndex |-> acc.toolCallOutputIndex]),
          toolCallOutputIndex |-> acc.toolCallOutputIndex + 1,
          events |-> Append(acc.events,
                            [type |-> "tool_call_start", callId |-> tc.id,
                             name |-> tc.name,
                             outputIndex |-> acc.toolCallOutputIndex])]
    ELSE LET i == mapGet(acc.pendingToolCalls, tc.index)
         IN IF i # 0 /\ tc.arguments # ""
            THEN [acc EXCEPT
                     !.pendingToolCalls[i].arguments = @ \o tc.arguments,
                     !.events = Append(@, [type |-> "tool_call_delta",
                                           callId |-> acc.pendingToolCalls[i].callId,
                                           argumentsDelta |-> tc.arguments])]
            ELSE acc

\* for (const tc of delta.tool_calls)
RECURSIVE processToolCalls(_, _)
processToolCalls(acc, tcs) ==
    IF tcs = <<>> THEN acc
    ELSE processToolCalls(processToolCall(acc, Head(tcs)), Tail(tcs))

\* One iteration of for await (const chunk of stream): the generator's locals
\* after it and the events it yields.
processChunk(st, chunk) ==
    LET usage == IF chunk.usage # None
                 THEN [inputTokens |-> orZero(chunk.usage[1].prompt_tokens),
                       outputTokens |-> orZero(chunk.usage[1].completion_tokens)]
                 ELSE st.usage
        st1 == [st EXCEPT !.usage = usage, !.chunks = Append(@, chunk)]
    IN IF chunk.choices = <<>>
       THEN [st |-> st1, events |-> <<>>]
       ELSE LET choice == chunk.choices[1]
                st2 == IF choice.finish_reason # None
                       THEN [st1 EXCEPT !.finishReason = choice.finish_reason]
                       ELSE st1
            IN IF choice.delta = None
               THEN [st |-> st2, events |-> <<>>]
               ELSE LET delta == choice.delta[1]
                        text == IF delta.content # ""
                                THEN <<[type |-> "text_delta",
                                        delta |-> delta.content]>>
                                ELSE <<>>
                        acc == processToolCalls(
                                   [pendingToolCalls |-> st2.pendingToolCalls,
                                    toolCallOutputIndex |-> st2.toolCallOutputIndex,
                                    events |-> text],
                                   delta.tool_calls)
                    IN [st |-> [st2 EXCEPT
                                   !.pendingToolCalls = acc.pendingToolCalls,
                                   !.toolCallOutputIndex = acc.toolCallOutputIndex],
                        events |-> acc.events]

\* "Emit tool_call_done for any pending tool calls", then message_done.
finalEvents(st) ==
    [i \in DOMAIN st.pendingToolCalls |->
        [type |-> "tool_call_done",
         callId |-> st.pendingToolCalls[i].callId,
         arguments |-> st.pendingToolCalls[i].arguments,
         outputIndex |-> st.pendingToolCalls[i].outputIndex]]
    \o <<[type |-> "message_done", stopReason |-> mapStopReason(st.finishReason),
          usage |-> st.usage]>>

\* await client.chat.completions.create({..., stream: true}) resolves.
ChatStreamCreate ==
    /\ pc = "adapter"
    /\ chatStream.pc = "idle"
    /\ chatStream' = [chatStream EXCEPT !.pc = "reading"]
    /\ UNCHANGED <<request, served, inputItems, providerReq, getVars, sinkClosed,
                   resolverVars, responseObj, pc, idVars, accVars, timerVars, wire,
                   yielded, pending, inflight, dbVars, endpointVars, adapterOutcome>>

\* The upstream sends one more chunk; the loop body runs once.
ChatStreamChunk(chunk) ==
    /\ chatStream.pc = "reading"
    /\ Len(chatStream.chunks) < MaxChunks
    /\ LET out == processChunk(chatStream, chunk)
       IN /\ chatStream' = out.st
          /\ yielded' = yielded \o out.events
    /\ UNCHANGED <<request, served, inputItems, providerReq, getVars, sinkClosed,
                   resolverVars, responseObj, pc, idVars, accVars, timerVars, wire,
                   pending, inflight, dbVars, endpointVars, adapterOutcome>>

\* The upstream's stream ends without error: the pending tool calls are
\* closed and message_done is yielded.
ChatStreamEnd ==
    /\ chatStream.pc = "reading"
    /\ chatStream' = [chatStream EXCEPT !.pc = "done"]
    /\ yielded' = yielded \o finalEvents(chatStream)
    /\ UNCHANGED <<request, served, inputItems, providerReq, getVars, sinkClosed,
                   resolverVars, responseObj, pc, idVars, accVars, timerVars, wire,
                   pending, inflight, dbVars, endpointVars, adapterOutcome>>

\* The upstream's stream fails: the error leaves the generator.
ChatStreamThrow ==
    /\ chatStream.pc = "reading"
    /\ chatStream' = [chatStream EXCEPT !.pc = "threw"]
    /\ UNCHANGED <<request, served, inputItems, providerReq, getVars, sinkClosed,
                   resolverVars, responseObj, pc, idVars, accVars, timerVars, wire,
                   yielded, pending, inflight, dbVars, endpointVars, adapterOutcome>>

\* The entries of delta.tool_calls the upstream may send.
ToolCallDeltas ==
    {[index |-> i, id |-> c, name |-> "get_weather", arguments |-> a] :
        i \in {0, 1}, c \in {"call_a", "call_b"}, a \in {"", "{\"ci"}}
    \cup {[index |-> i, id |-> "", name |-> "", arguments |-> a] :
             i \in {0, 1}, a \in {"", "ty\":1}"}}

choiceChunk(finishReason, delta) ==
    [usage |-> None, choices |-> <<[finish_reason |-> finishReason, delta |-> delta]>>]

\* The chunks the upstream may send.
UpstreamChunks ==
    {choiceChunk(None, Some([content |-> "Hi", tool_calls |-> <<>>]))}
    \cup {choiceChunk(None, Some([content |-> "", tool_calls |-> <<tc>>])) :
             tc \in ToolCallDeltas}
    \cup {choiceChunk(None, Some([content |-> "", tool_calls |->
                 <<[index |-> 0, id |-> "call_a", name |-> "get_weather",
                    arguments |-> "{}"],
                   [index |-> 1, id |-> "call_b", name |-> "get_weather",
                    arguments |-> "{}"]>>]))}
    \cup {choiceChunk(Some("tool_calls"), Some([content |-> "", tool_calls |-> <<>>])),
          choiceChunk(Some("length"), None),
          [usage |-> Some([prompt_tokens |-> Some(20), completion_tokens |-> None]),
           choices |-> <<>>]}

InitChatStream ==
    InitAt({[store |-> FALSE, stream |-> TRUE, background |-> FALSE]}, {<<>>},
           "adapter")

NextChatStream ==
    \/ ChatStreamCreate
    \/ \E chunk \in UpstreamChunks : ChatStreamChunk(chunk)
    \/ ChatStreamEnd
    \/ ChatStreamThrow

SpecChatStream == InitChatStream /\ [][NextChatStream]_vars

\* ------------------------------------------------------------------------
\* Model name -> ProviderAdapter resolver (lib/providers/resolver.ts)
\* ------------------------------------------------------------------------

\* MODEL_MAP: public model id -> underlying model and adapter key.
ModelRegistry ==
    [m \in {"gpt-oss-20b-responses", "claude-opus-4-6-responses",
            "claude-sonnet-4-6-responses"} |->
        IF m = "gpt-oss-20b-responses"
        THEN [underlyingModel |-> "gpt-oss-20b", adapterKey |-> "openai-compatible"]
        ELSE IF m = "claude-opus-4-6-responses"
        THEN [underlyingModel |-> "claude-opus-4-6", adapterKey |-> "anthropic"]
        ELSE [underlyingModel |-> "claude-sonnet-4-6", adapterKey |-> "anthropic"]]

\* The model ids requests ask for: the registered ones and one that is not.
ModelIds == DOMAIN ModelRegistry \cup {"gpt-unknown"}

\* An adapter instance: its class (key) and the order of its construction.
newAdapter(key, n) == [key |-> key, instance |-> n + 1]

\* resolveAdapter(modelId) up to its first await: the registry lookup (an
\* unknown model throws badRequest), then getAdapter's cache lookup; a hit
\* returns the cached adapter, a miss awaits the adapter module's import.
ResolveStart(c, modelId) ==
    /\ resolveCalls[c].pc = "idle"
    /\ IF modelId \notin DOMAIN ModelRegistry
       THEN resolveCalls' =
               [resolveCalls EXCEPT ![c] =
                   [pc |-> "thrown", modelId |-> modelId,
                    error |-> badRequest(<<"Model '", modelId,
                                           "' is not a supported model.">>,
                                         Some("model"))]]
       ELSE LET entry == ModelRegistry[modelId]
            IN IF entry.adapterKey \in DOMAIN adapterCache
               THEN resolveCalls' =
                       [resolveCalls EXCEPT ![c] =
                           [pc |-> "returned", modelId |-> modelId,
                            adapter |-> adapterCache[entry.adapterKey],
                            underlyingModel |-> entry.underlyingModel]]
               ELSE resolveCalls' =
                       [resolveCalls EXCEPT ![c] =
                           [pc |-> "importing", modelId |-> modelId]]
    /\ UNCHANGED <<request, served, chatStream, inputItems, providerReq, getVars, sinkClosed,
                   adapterCache, adaptersCreated, responseObj, pc, idVars, accVars,
                   timerVars, wire, yielded, pending, inflight, dbVars,
                   endpointVars, adapterOutcome>>

\* getAdapter after await import(...): adapter = new ...Adapter();
\* adapterCache.set(key, adapter); return adapter.
ResolveImported(c) ==
    /\ resolveCalls[c].pc = "importing"
    /\ LET entry == ModelRegistry[resolveCalls[c].modelId]
           adapter == newAdapter(entry.adapterKey, adaptersCreated)
       IN /\ adaptersCreated' = adaptersCreated + 1
          /\ adapterCache' = (entry.adapterKey :> adapter) @@ adapterCache
          /\ resolveCalls' =
                [resolveCalls EXCEPT ![c] =
                    [pc |-> "returned", modelId |-> resolveCalls[c].modelId,
                     adapter |-> adapter,
                     underlyingModel |-> entry.underlyingModel]]
    /\ UNCHANGED <<request, served, chatStream, inputItems, providerReq, getVars, sinkClosed,
                   responseObj, pc, idVars, accVars, timerVars, wire, yielded,
                   pending, inflight, dbVars, endpointVars, adapterOutcome>>

\* ------------------------------------------------------------------------
\* Specification of concurrent resolveAdapter calls in one process
\* ------------------------------------------------------------------------

NextResolve ==
    \/ \E c \in Callers, modelId \in ModelIds : ResolveStart(c, modelId)
    \/ \E c \in Callers : ResolveImported(c)

\* A process in which no adapter has been constructed yet.
InitResolve == InitWith({[store |-> FALSE, stream |-> FALSE, background |-> FALSE]})

SpecResolve == InitResolve /\ [][NextResolve]_vars

\* ------------------------------------------------------------------------
\* The POST routes: /v1/responses and /v1/responses/compact
\* ------------------------------------------------------------------------

\* const builtinTypes = new Set([...])
builtinTypes ==
    {"web_search_preview", "file_search", "code_interpreter", "image_generation",
     "computer_use_preview"}

\* parsed.data.tools.some((t) => builtinTypes.has(t.type))
hasBuiltin(tools) == \E k \in DOMAIN tools : tools[k].type \in builtinTypes

\* POST /v1/responses, for a request that passed authentication, the
\* content-type check, JSON parsing and validation: step 5, the check for
\* built-in tools, then runResponse.
PostResponses ==
    /\ pc = "route"
    /\ request.endpoint = "responses"
    /\ IF hasBuiltin(request.tools)
       THEN /\ httpResponse'
               = Some(notImplemented("Built-in tools are not yet implemented."))
            /\ pc' = "closed"
       ELSE /\ httpResponse' = httpResponse
            /\ pc' = "assemble"
    /\ UNCHANGED <<request, runVars, responseObj, idVars, accVars, timerVars, wire,
                   yielded, pending, inflight, dbVars, cancelVars, deleteVars,
                   adapterOutcome>>

\* POST /v1/responses/compact: previous_response_id is required, then
\* validation, then runResponse.
PostCompact ==
    /\ pc = "route"
    /\ request.endpoint = "compact"
    /\ IF request.previous_response_id = None
       THEN /\ httpResponse'
               = Some(badRequest(
                     "previous_response_id is required for the compact endpoint.",
                     Some("previous_response_id")))
            /\ pc' = "closed"
       ELSE /\ httpResponse' = httpResponse
            /\ pc' = "assemble"
    /\ UNCHANGED <<request, runVars, responseObj, idVars, accVars, timerVars, wire,
                   yielded, pending, inflight, dbVars, cancelVars, deleteVars,
                   adapterOutcome>>

\* ------------------------------------------------------------------------
\* Specification of a synchronous request from its route on
\* ------------------------------------------------------------------------

FunctionTool == [type |-> "function", name |-> "get_weather"]
BuiltinTools == {[type |-> t] : t \in builtinTypes}

\* request.tools: no tool, a function tool, a built-in tool alone or after a
\* function tool.
ToolLists ==
    {<<>>, <<FunctionTool>>}
    \cup {<<b>> : b \in BuiltinTools}
    \cup {<<FunctionTool, b>> : b \in BuiltinTools}

RouteRequests ==
    [endpoint : {"responses", "compact"}, tools : ToolLists,
     store : BOOLEAN, stream : {FALSE}, background : {FALSE},
     previous_response_id : {None, Some(PrevId)},
     input : {[kind |-> "string", value |-> "go on"]}]

RouteTables ==
    {(PrevId :> row) @@ <<>> :
        row \in {r \in AssembleRows : r.store /\ r.status = "completed"}}

InitRoute == InitAt(RouteRequests, RouteTables, "route")

NextRoute ==
    \/ PostResponses
    \/ PostCompact
    \/ BuildInputItems
    \/ ConvertToProviderMessages
    \/ SyncTask

SpecRoute == InitRoute /\ [][NextRoute]_vars

\* ------------------------------------------------------------------------
\* Specification of the conversation assembler: input items of every kind
\* ------------------------------------------------------------------------

\* Largest number of items in request.input.
MaxItems == 3

UserText == [type |-> "message", role |-> "user", content |-> StringContent("hi")]
UserEmpty == [type |-> "message", role |-> "user", content |-> StringContent("")]
UserImage ==
    [type |-> "message", role |-> "user",
     content |-> <<[type |-> "input_text", text |-> "see"],
                   [type |-> "input_image",
                    image_url |-> Some("data:image/png;base64,AAAA")]>>]
AssistantParts ==
    [type |-> "message", role |-> "assistant",
     content |-> <<[type |-> "output_text", text |-> "ok"]>>]
SystemText ==
    [type |-> "message", role |-> "system", content |-> StringContent("be brief")]
SystemEmpty == [type |-> "message", role |-> "system", content |-> StringContent("")]
DeveloperParts ==
    [type |-> "message", role |-> "developer",
     content |-> <<[type |-> "input_text", text |-> "dev"],
                   [type |-> "input_image", image_url |-> Some("https://x/cat.png")],
                   [type |-> "input_text", text |-> "mode"]>>]
FunctionCall ==
    [type |-> "function_call", call_id |-> "call_a", name |-> "get_weather",
     arguments |-> "{\"city\":\"NYC\"}"]
FunctionCallOutput ==
    [type |-> "function_call_output", call_id |-> "call_a", output |-> "sunny"]

ConvertItems ==
    {UserText, UserEmpty, UserImage, AssistantParts, SystemText, SystemEmpty,
     DeveloperParts, FunctionCall, FunctionCallOutput}

\* The output of the stored response: a reasoning item and a function call
\* whose arguments are not valid JSON.
StoredReasoning ==
    [type |-> "reasoning", id |-> <<"rs_", 0>>,
     summary |-> <<[type |-> "summary_text", text |-> "because"]>>]
StoredCall ==
    [type |-> "function_call", id |-> <<"fc_", 0>>, call_id |-> "call_b",
     status |-> "completed", name |-> "get_weather", arguments |-> "{\"ci"]

ConvertTables ==
    {(PrevId :> [id |-> PrevId, status |-> "completed",
                 inputItemsJson |-> <<PrevInputItem>>,
                 outputItemsJson |-> <<StoredReasoning, StoredCall>>,
                 usageJson |-> None, store |-> TRUE, background |-> FALSE,
                 errorJson |-> None, incompleteDetailsJson |-> None,
                 completedAt |-> Some("now"), cancelledAt |-> None]) @@ <<>>}

ConvertRequests ==
    [store : {FALSE}, stream : {FALSE}, background : {FALSE},
     previous_response_id : {None, Some(PrevId)},
     input : {[kind |-> "array", items |-> q] :
                 q \in SeqsUpTo(ConvertItems, MaxItems)},
     instructions : {None, Some(""), Some("be kind")}]

InitConvert == InitAt(ConvertRequests, ConvertTables, "assemble")

NextConvert ==
    \/ BuildInputItems
    \/ ConvertToProviderMessages

SpecConvert == InitConvert /\ [][NextConvert]_vars

\* ------------------------------------------------------------------------
\* Vocabulary of the properties
\* ------------------------------------------------------------------------

IsTyped(f, t) == ~IsDone(f) /\ f.type = t
HasSeq(f) == "sequence_number" \in DOMAIN f
IsAdded(f) == IsTyped(f, "response.output_item.added")
IsItemDone(f) == IsTyped(f, "response.output_item.done")
IsMessageItem(item) == item.type = "message"
IsFunctionCallItem(item) == item.type = "function_call"
IsTextDelta(e) == e.type = "text_delta"
IsToolCallStart(e) == e.type = "tool_call_start"

FramesWhere(Test(_)) == SelectSeq(wire, Test)
DoneCount == Len(FramesWhere(IsDone))
Last(q) == q[Len(q)]

YieldedSome(t) == \E i \in 1..Len(yielded) : yielded[i].type = t

\* The concatenation, in order, of the deltas of the text_delta events of evs.
RECURSIVE ConcatDeltas(_)
ConcatDeltas(evs) ==
    IF evs = <<>> THEN ""
    ELSE (IF IsTextDelta(Head(evs)) THEN Head(evs).delta ELSE "")
         \o ConcatDeltas(Tail(evs))

\* The call ids of the tool_call_start events of evs, in order.
StartedCallIds(evs) ==
    LET starts == SelectSeq(evs, IsToolCallStart)
    IN [i \in 1..Len(starts) |-> starts[i].callId]

\* The items in order of first appearance in evs: "message" at the first
\* text_delta, the call id at each tool_call_start.
RECURSIVE FirstAppearances(_, _)
FirstAppearances(evs, seenText) ==
    IF evs = <<>> THEN <<>>
    ELSE LET e == Head(evs)
         IN IF IsTextDelta(e)
            THEN (IF seenText THEN <<>> ELSE <<"message">>)
                 \o FirstAppearances(Tail(evs), TRUE)
            ELSE IF IsToolCallStart(e)
            THEN <<e.callId>> \o FirstAppearances(Tail(evs), seenText)
            ELSE FirstAppearances(Tail(evs), seenText)

\* The item a frame is about.
ItemIdOf(f) == IF "item" \in DOMAIN f THEN f.item.id ELSE f.item_id
AddedKey(f) == IF IsMessageItem(f.item) THEN "message" ELSE f.item.call_id

\* ------------------------------------------------------------------------
\* C1
\* ------------------------------------------------------------------------

\* C1: terminal statuses are write-once: once a stored row has status
\* completed, failed, cancelled or incomplete, no later statement of any task
\* (terminal persist, partial update, cancel) changes the row's status.
C1_TerminalStatusWriteOnce ==
    [][\A id \in DOMAIN rows :
          rows[id].status \in TerminalStatuses
          => (id \in DOMAIN rows' /\ rows'[id].status = rows[id].status)]_vars

\* ------------------------------------------------------------------------
\* C2
\* ------------------------------------------------------------------------

\* C2: a stream emits at most one [DONE], nothing is emitted after it, and a
\* stream that has ended (normally, by abort or by error) has emitted exactly one.
C2_ExactlyOneDoneLast ==
    /\ DoneCount <= 1
    /\ \A i \in 1..Len(wire) : IsDone(wire[i]) => i = Len(wire)
    /\ (request.stream /\ pc = "closed") => DoneCount = 1

C2_Witness ==
    /\ pc = "closed"
    /\ adapterOutcome # None /\ adapterOutcome[1].end = "throw"
    /\ ~isAbort(adapterOutcome[1].error)
    /\ request.store
    /\ YieldedSome("message_done")
    /\ IsDone(Last(wire))

\* ------------------------------------------------------------------------
\* C3
\* ------------------------------------------------------------------------

\* C3: the frames that carry a sequence_number carry 1, 2, 3, ... in emission
\* order, and the first frame of a stream is response.in_progress with 1.
C3_SequenceDense ==
    /\ LET numbered == FramesWhere(HasSeq)
       IN \A k \in 1..Len(numbered) : numbered[k].sequence_number = k
    /\ wire # <<>> => /\ IsTyped(wire[1], "response.in_progress")
                      /\ wire[1].sequence_number = 1

C3_Witness ==
    /\ Len(FramesWhere(HasSeq)) >= 6
    /\ \E i \in 1..Len(wire) : IsTyped(wire[i], "error")
    /\ IsTyped(wire[Len(wire) - 1], "response.failed")

\* ------------------------------------------------------------------------
\* C4
\* ------------------------------------------------------------------------

\* C4: every frame that carries a response object (response.in_progress,
\* response.completed, response.failed) carries the stream's response id, and
\* every statement on the responses table made for the stream has that id.
C4_ResponseIdConstant ==
    /\ \A i \in 1..Len(wire) :
          (~IsDone(wire[i]) /\ "response" \in DOMAIN wire[i])
          => wire[i].response.id = responseId
    /\ \A w \in writes : w.id = responseId
    /\ \A id \in DOMAIN rows : id = responseId /\ rows[id].id = responseId

C4_Witness ==
    /\ pc = "closed"
    /\ Cardinality(writes) >= 3
    /\ \E i \in 1..Len(wire) : IsTyped(wire[i], "response.completed")
    /\ responseId \in DOMAIN rows

\* ------------------------------------------------------------------------
\* C5
\* ------------------------------------------------------------------------

IsTextFrame(f) ==
    /\ ~IsDone(f)
    /\ \/ f.type \in {"response.content_part.added", "response.content_part.done",
                     "response.output_text.delta", "response.output_text.done"}
       \/ /\ f.type \in {"response.output_item.added", "response.output_item.done"}
          /\ IsMessageItem(f.item)

NoMessageItem(output) == \A k \in 1..Len(output) : ~IsMessageItem(output[k])

\* C5: while the adapter has yielded no text_delta, no message-typed
\* output_item.added/done, no content_part.* and no output_text.* frame is
\* emitted, and no output array (in response.completed, response.failed, a
\* persist call or the row) holds a message item.
C5_LazyItemOpening ==
    ~YieldedSome("text_delta")
    => /\ \A i \in 1..Len(wire) : ~IsTextFrame(wire[i])
       /\ \A i \in 1..Len(wire) :
             (~IsDone(wire[i]) /\ "response" \in DOMAIN wire[i]
              /\ "output" \in DOMAIN wire[i].response)
             => NoMessageItem(wire[i].response.output)
       /\ pending # None => NoMessageItem(pending[1].outputItems)
       /\ \A id \in DOMAIN rows : NoMessageItem(rows[id].outputItemsJson)

C5_Witness ==
    /\ pc = "closed"
    /\ request.store
    /\ ~YieldedSome("text_delta")
    /\ YieldedSome("tool_call_done")
    /\ YieldedSome("message_done")
    /\ adapterOutcome = Some(Ended)
    /\ Len(rows[responseId].outputItemsJson) = 1

\* ------------------------------------------------------------------------
\* C6
\* ------------------------------------------------------------------------

\* C6: the k-th output_item.added frame has output_index k-1 and announces the
\* k-th item to first appear in the adapter's events (the message at the first
\* text_delta, a function call at its tool_call_start), whatever outputIndex the
\* adapter supplied; every frame with an output_index carries the index
\* announced by the output_item.added frame of the item it is about.
C6_OutputIndexFirstAppearance ==
    LET added == FramesWhere(IsAdded)
    IN /\ \A k \in 1..Len(added) : added[k].output_index = k - 1
       /\ [k \in 1..Len(added) |-> AddedKey(added[k])] = FirstAppearances(yielded, FALSE)
       /\ \A i \in 1..Len(wire) :
             (~IsDone(wire[i]) /\ "output_index" \in DOMAIN wire[i])
             => \E j \in 1..i :
                   /\ IsAdded(wire[j])
                   /\ ItemIdOf(wire[j]) = ItemIdOf(wire[i])
                   /\ wire[j].output_index = wire[i].output_index

C6_Witness ==
    /\ Len(FramesWhere(IsAdded)) = 3
    /\ IsFunctionCallItem(FramesWhere(IsAdded)[1].item)
    /\ IsMessageItem(FramesWhere(IsAdded)[2].item)
    /\ yielded[1].outputIndex = 7
    /\ yielded[3].outputIndex = 0

\* ------------------------------------------------------------------------
\* C7
\* ------------------------------------------------------------------------

FrameType(f) == IF IsDone(f) THEN "[DONE]" ELSE f.type

\* The adapter yielded n >= 1 text_delta events, then one message_done, and
\* its stream ended.
TextOnlyStreamEnded ==
    /\ adapterOutcome = Some(Ended)
    /\ Len(yielded) >= 2
    /\ \A i \in 1..(Len(yielded) - 1) : IsTextDelta(yielded[i])
    /\ Last(yielded).type = "message_done"

\* C7: for n >= 1 text_delta events followed by one message_done, the emitted
\* frame types are exactly in_progress, output_item.added, content_part.added,
\* n output_text.delta (carrying the deltas in order), output_text.done,
\* content_part.done, output_item.done, response.completed, [DONE], and the
\* three closing frames carry the concatenation of the n deltas.
C7_TextStreamShape ==
    TextOnlyStreamEnded
    => LET n == Len(yielded) - 1
           full == ConcatDeltas(yielded)
       IN /\ [i \in 1..Len(wire) |-> FrameType(wire[i])]
             = <<"response.in_progress", "response.output_item.added",
                 "response.content_part.added">>
               \o [i \in 1..n |-> "response.output_text.delta"]
               \o <<"response.output_text.done", "response.content_part.done",
                    "response.output_item.done", "response.completed", "[DONE]">>
          /\ \A i \in 1..n : wire[3 + i].delta = yielded[i].delta
          /\ wire[n + 4].text = full
          /\ wire[n + 5].part.text = full
          /\ wire[n + 6].item.content[1].text = full

C7_Witness ==
    /\ TextOnlyStreamEnded
    /\ Len(yielded) = 3
    /\ yielded[1].delta # yielded[2].delta
    /\ wire[6].text = yielded[1].delta \o yielded[2].delta

\* ------------------------------------------------------------------------
\* C8
\* ------------------------------------------------------------------------

StartedBefore(callId) ==
    \E i \in 1..Len(yielded) :
        IsToolCallStart(yielded[i]) /\ yielded[i].callId = callId

\* C8: handling tool_call_start writes exactly one frame, output_item.added with
\* a function_call item (status in_progress, arguments "", a fresh id);
\* handling tool_call_delta writes nothing; handling tool_call_done for a started
\* call writes exactly one frame, output_item.done, status completed, with the
\* arguments carried by tool_call_done, and with the id, output_index and
\* call_id of exactly one earlier output_item.added frame.
C8_ToolCallProjection ==
    [][Len(yielded') = Len(yielded) + 1
       => LET e == Last(yielded')
              f == Last(wire')
          IN /\ IsToolCallStart(e)
                => /\ wire' = Append(wire, f)
                   /\ IsAdded(f)
                   /\ IsFunctionCallItem(f.item)
                   /\ f.item.status = "in_progress"
                   /\ f.item.arguments = ""
                   /\ f.item.call_id = e.callId
                   /\ f.item.name = e.name
                   /\ \A j \in 1..Len(wire) :
                         IsAdded(wire[j]) => wire[j].item.id # f.item.id
             /\ e.type = "tool_call_delta" => wire' = wire
             /\ (e.type = "tool_call_done" /\ StartedBefore(e.callId))
                => /\ wire' = Append(wire, f)
                   /\ IsItemDone(f)
                   /\ IsFunctionCallItem(f.item)
                   /\ f.item.status = "completed"
                   /\ f.item.arguments = e.arguments
                   /\ f.item.call_id = e.callId
                   /\ Cardinality({j \in 1..Len(wire) :
                                     /\ IsAdded(wire[j])
                                     /\ wire[j].item.id = f.item.id
                                     /\ wire[j].output_index = f.output_index
                                     /\ wire[j].item.call_id = e.callId}) = 1]_vars

C8_Witness ==
    /\ Len(yielded) = 3
    /\ IsToolCallStart(yielded[1])
    /\ yielded[2].type = "tool_call_delta"
    /\ yielded[3].type = "tool_call_done"
    /\ yielded[2].callId = yielded[1].callId
    /\ yielded[3].callId = yielded[1].callId
    /\ IsItemDone(Last(wire))
    /\ Last(wire).item.arguments = yielded[3].arguments
    /\ functionCalls[1].arguments # yielded[2].argumentsDelta

\* ------------------------------------------------------------------------
\* C9
\* ------------------------------------------------------------------------

\* An abort error: named AbortError, or the SDK's APIUserAbortError.
IsAbortError(err) == err.name = "AbortError" \/ err.class = "APIUserAbortError"

ThrewAbort(outcome) ==
    outcome # None /\ outcome[1].end = "throw" /\ IsAbortError(outcome[1].error)

ThrewOther(outcome) ==
    outcome # None /\ outcome[1].end = "throw" /\ ~IsAbortError(outcome[1].error)

\* The output holds the text received so far (one message item iff a text_delta
\* was received) and every function call started so far, in start order.
HoldsPartialOutput(output) ==
    LET msgs == SelectSeq(output, IsMessageItem)
        fcs == SelectSeq(output, IsFunctionCallItem)
    IN /\ Len(msgs) = IF YieldedSome("text_delta") THEN 1 ELSE 0
       /\ msgs # <<>> => msgs[1].content[1].text = ConcatDeltas(yielded)
       /\ [i \in 1..Len(fcs) |-> fcs[i].call_id] = StartedCallIds(yielded)

\* C9: in a store=true stream whose adapter throws an abort error before
\* message_done, from the abort on the only frame written is [DONE], no
\* response.completed or response.failed is on the wire, and once the task has
\* finished exactly one [DONE] is on the wire and the row has status incomplete,
\* incomplete_details {reason: interrupted} and the partial output.
C9_AbortPath ==
    [][(request.store /\ ThrewAbort(adapterOutcome') /\ ~YieldedSome("message_done"))
       => /\ wire' = wire \/ wire' = Append(wire, sseDone)
          /\ \A i \in 1..Len(wire') :
                /\ ~IsTyped(wire'[i], "response.completed")
                /\ ~IsTyped(wire'[i], "response.failed")
                /\ ~IsTyped(wire'[i], "error")
          /\ pc' = "closed"
             => /\ IsDone(Last(wire'))
                /\ responseId \in DOMAIN rows'
                /\ rows'[responseId].status = "incomplete"
                /\ rows'[responseId].incompleteDetailsJson
                   = Some([reason |-> "interrupted"])
                /\ HoldsPartialOutput(rows'[responseId].outputItemsJson)]_vars

C9_Witness ==
    /\ request.store
    /\ pc = "closed"
    /\ ThrewAbort(adapterOutcome)
    /\ adapterOutcome[1].error.class = "APIUserAbortError"
    /\ Len(yielded) = 3
    /\ IsTextDelta(yielded[1]) /\ IsTextDelta(yielded[2])
    /\ IsToolCallStart(yielded[3])
    /\ rows[responseId].status = "incomplete"
    /\ Len(rows[responseId].outputItemsJson) = 2

\* ------------------------------------------------------------------------
\* C10
\* ------------------------------------------------------------------------

\* The message of a thrown value: an Error's message, the default otherwise.
MessageOfThrown(err) ==
    IF err.class = "NonError" THEN "Internal server error" ELSE err.message

PartialUpdateApplied == inflight' \subseteq inflight /\ inflight' # inflight

\* C11: a partial-output update never adds or removes a row and never changes
\* a column other than the output items; applied while the row is missing or
\* its status is not in_progress it leaves the table as it was; applied to an
\* in_progress row it sets that row's output items to the update's payload.
C11_PartialUpdateFrame ==
    [][PartialUpdateApplied
       => /\ DOMAIN rows' = DOMAIN rows
          /\ \A id \in DOMAIN rows :
                \A col \in DOMAIN rows[id] \ {"outputItemsJson"} :
                    rows'[id][col] = rows[id][col]
          /\ (responseId \notin DOMAIN rows
              \/ rows[responseId].status # "in_progress") => rows' = rows
          /\ (responseId \in DOMAIN rows /\ rows[responseId].status = "in_progress")
             => rows'[responseId].outputItemsJson \in inflight \ inflight']_vars

\* Every partial update issued has been applied, its payload held a message
\* item, and the cancelled row still has the empty output it had before.
C11_Witness ==
    /\ inflight = {}
    /\ \E w \in writes : w.op = "partial"
    /\ responseId \in DOMAIN rows
    /\ rows[responseId].status = "cancelled"
    /\ rows[responseId].outputItemsJson = <<>>
    /\ textItemOpened

\* ------------------------------------------------------------------------
\* C12
\* ------------------------------------------------------------------------

\* C12: in a store=true stream, when the first frame is written the row of
\* the stream's response id is already in the table with status in_progress
\* and empty output items, no persist call is still awaited, and that first
\* frame is response.in_progress; every later frame follows that write too.
C12_RowBeforeFirstEvent ==
    [][(request.stream /\ request.store /\ wire' # <<>>)
       => /\ \E w \in writes :
                w.op = "upsert" /\ w.id = responseId /\ w.status = "in_progress"
          /\ wire = <<>>
             => /\ pending = None
                /\ responseId \in DOMAIN rows
                /\ rows[responseId].status = "in_progress"
                /\ rows[responseId].outputItemsJson = <<>>
                /\ Len(wire') = 1
                /\ IsTyped(wire'[1], "response.in_progress")]_vars

C12_Witness ==
    /\ request.stream /\ request.store
    /\ Len(wire) = 1
    /\ IsTyped(wire[1], "response.in_progress")
    /\ rows[responseId].status = "in_progress"
    /\ rows[responseId].outputItemsJson = <<>>
    /\ writes = {[op |-> "upsert", id |-> responseId, status |-> "in_progress"]}

\* ------------------------------------------------------------------------
\* C13
\* ------------------------------------------------------------------------

\* C13: for a request with store=false, whatever its stream and background
\* flags and whatever the outcome of the provider call, no statement is ever
\* executed on the responses table, no persistResponse call is awaited, no
\* partial update is in flight, and the table holds no row.
C13_StoreFalseNeverWrites ==
    ~request.store
    => /\ writes = {}
       /\ pending = None
       /\ inflight = {}
       /\ DOMAIN rows = {}

C13_Witness ==
    /\ ~request.store
    /\ request.stream /\ request.background
    /\ pc = "closed"
    /\ YieldedSome("text_delta")
    /\ ThrewAbort(adapterOutcome)
    /\ writes = {}

\* ------------------------------------------------------------------------
\* C14
\* ------------------------------------------------------------------------

\* The stream's terminal persistResponse statement has been executed.
TerminalRowWritten ==
    \E w \in writes : w.op = "upsert" /\ w.status \in TerminalStatuses

\* C14: at most one debounce callback is armed at any time, and one is armed
\* exactly when the handle is held; each text_delta of a store=true stream
\* leaves exactly one armed; from the moment the task begins its terminal
\* handling (adapter stream ended, abort, or error) none is armed; and after
\* the terminal row write no further persistPartialOutput call is issued.
C14_DebouncedCheckpoint ==
    [][/\ armedTimers' <= 1
       /\ partialUpdateTimer' <=> (armedTimers' = 1)
       /\ (request.store /\ Len(yielded') = Len(yielded) + 1
           /\ IsTextDelta(Last(yielded')))
          => armedTimers' = 1
       /\ adapterOutcome' # None => armedTimers' = 0
       /\ (adapterOutcome # None \/ TerminalRowWritten)
          => inflight' \subseteq inflight]_vars

\* Two text deltas re-armed the timer, it then fired once and its update was
\* applied, and the terminal write followed with nothing left armed.
C14_Witness ==
    /\ request.store
    /\ pc = "closed"
    /\ Len(SelectSeq(yielded, IsTextDelta)) >= 2
    /\ TerminalRowWritten
    /\ \E w \in writes : w.op = "partial"
    /\ armedTimers = 0
    /\ inflight = {}

\* ------------------------------------------------------------------------
\* C15
\* ------------------------------------------------------------------------

\* A partial-output write has been issued by the stream.
PartialUpdateIssued == inflight # {} \/ \E w \in writes : w.op = "partial"

\* The time by which a stream checkpointed about every second has written a
\* checkpoint: two debounce delays (2 s) after its first text_delta.
CheckpointTicks == 2 * DebounceTicks

\* C15: a store=true stream that is still open two debounce delays (2 s)
\* after its first text_delta has issued a partial-output write, however
\* closely its text deltas follow one another.
C15_CheckpointedEverySecond ==
    (request.store /\ pc = "streaming" /\ elapsed >= CheckpointTicks)
    => PartialUpdateIssued

\* ------------------------------------------------------------------------
\* C16
\* ------------------------------------------------------------------------

\* The output_item.added frames that announce a message item.
MessageAddedFrames ==
    SelectSeq(wire, LAMBDA f : IsAdded(f) /\ IsMessageItem(f.item))

\* Every message item of the output array has the given id.
MessageItemsHaveId(output, id) ==
    \A k \in 1..Len(output) : IsMessageItem(output[k]) => output[k].id = id

\* C16: a stream emits at most one output_item.added with a message item,
\* and exactly one once it has opened the message item; the item_id of every
\* content_part.* and output_text.* frame, the id in the message's
\* output_item.done, and the id of the message item in every output array
\* (response.completed, response.failed, partial updates, persist calls, the
\* row) equal the id announced by that frame.
C16_MessageIdStable ==
    /\ Len(MessageAddedFrames) = IF textItemOpened THEN 1 ELSE 0
    /\ textItemOpened
       => LET announced == MessageAddedFrames[1].item.id
          IN /\ \A i \in 1..Len(wire) :
                   IsTextFrame(wire[i]) => ItemIdOf(wire[i]) = announced
             /\ \A i \in 1..Len(wire) :
                   (~IsDone(wire[i]) /\ "response" \in DOMAIN wire[i]
                    /\ "output" \in DOMAIN wire[i].response)
                   => MessageItemsHaveId(wire[i].response.output, announced)
             /\ pending # None => MessageItemsHaveId(pending[1].outputItems, announced)
             /\ \A o \in inflight : MessageItemsHaveId(o, announced)
             /\ \A id \in DOMAIN rows :
                   MessageItemsHaveId(rows[id].outputItemsJson, announced)

C16_Witness ==
    /\ request.store
    /\ pc = "closed"
    /\ adapterOutcome = Some(Ended)
    /\ YieldedSome("message_done")
    /\ Len(MessageAddedFrames) = 1
    /\ \E w \in writes : w.op = "partial"
    /\ \E k \in 1..Len(rows[responseId].outputItemsJson) :
          /\ IsMessageItem(rows[responseId].outputItemsJson[k])
          /\ rows[responseId].outputItemsJson[k].id = MessageAddedFrames[1].item.id

\* ------------------------------------------------------------------------
\* C17
\* ------------------------------------------------------------------------

BackgroundStored == request.background /\ request.store

\* What an output item carries besides its id and status.
ItemContent(item) ==
    IF item.type = "message" THEN <<"message", item.content[1].text>>
    ELSE IF item.type = "function_call"
    THEN <<"function_call", item.call_id, item.name, item.arguments>>
    ELSE <<"reasoning", item.summary[1].text>>

ContentsOf(output) == [k \in 1..Len(output) |-> ItemContent(output[k])]

\* The text and tool_use items of a final result, in order, as item contents.
RECURSIVE TextAndToolContents(_)
TextAndToolContents(messages) ==
    IF messages = <<>> THEN <<>>
    ELSE LET m == Head(messages)
         IN (IF m.type = "text" THEN << <<"message", m.text>> >>
             ELSE IF m.type = "tool_use"
             THEN << <<"function_call", m.callId, m.name, m.arguments>> >>
             ELSE <<>>)
            \o TextAndToolContents(Tail(messages))

\* The provider call has not started: the task is at or before after().
BackgroundCallNotStarted == pc \in {"start", "bg_init_persist", "bg_scheduled"}

\* The in_progress row is in the table and the in_progress response object
\* has been returned to the caller.
BackgroundAcknowledged ==
    /\ \E w \in writes :
          w.op = "upsert" /\ w.id = responseId /\ w.status = "in_progress"
    /\ httpResponse # None
    /\ httpResponse[1].id = responseId
    /\ httpResponse[1].status = "in_progress"
    /\ httpResponse[1].output = <<>>
    /\ httpResponse[1].background

\* The row holds the outcome of the provider call.
BackgroundSettled ==
    /\ BackgroundStored
    /\ pc = "closed"
    /\ responseId \in DOMAIN rows
    /\ LET row == rows[responseId]
           outcome == adapterOutcome[1]
       IN IF outcome.end = "return"
          THEN /\ row.status = "completed"
               /\ ContentsOf(SelectSeq(row.outputItemsJson,
                                       LAMBDA i : i.type # "reasoning"))
                  = TextAndToolContents(outcome.result.messages)
               /\ row.usageJson
                  = Some([input_tokens |-> outcome.result.usage.inputTokens,
                          output_tokens |-> outcome.result.usage.outputTokens,
                          total_tokens |-> outcome.result.usage.inputTokens
                                           + outcome.result.usage.outputTokens])
               /\ row.errorJson = None
          ELSE /\ row.status = "failed"
               /\ row.outputItemsJson = <<>>
               /\ row.errorJson
                  = Some([type |-> "server_error",
                          message |-> IF outcome.error.class = "NonError"
                                      THEN "Background task failed"
                                      ELSE outcome.error.message,
                          code |-> None])

\* C17: for background=true and store=true, the provider call starts only
\* after the in_progress row (empty output) is written and the in_progress
\* response object is returned, until then the row stays in_progress with
\* empty output; and, the provider call terminating and the row writes
\* completing, the row eventually is completed with the result's outputs and
\* usage if the call returned, failed with the error payload if it threw.
C17_BackgroundMode ==
    /\ [](BackgroundStored
          => /\ ~BackgroundCallNotStarted => BackgroundAcknowledged
             /\ pc = "bg_scheduled"
                => /\ BackgroundAcknowledged
                   /\ rows[responseId].status = "in_progress"
                   /\ rows[responseId].outputItemsJson = <<>>
                   /\ adapterOutcome = None)
    /\ (BackgroundStored ~> BackgroundSettled)

C17_Witness ==
    /\ BackgroundStored
    /\ BackgroundSettled
    /\ BackgroundAcknowledged
    /\ adapterOutcome[1].end = "return"
    /\ Len(adapterOutcome[1].result.messages) = 2
    /\ Len(rows[responseId].outputItemsJson) = 2

\* ------------------------------------------------------------------------
\* C18
\* ------------------------------------------------------------------------

\* The output items with their ids blanked.
WithoutIds(output) == [k \in 1..Len(output) |-> [output[k] EXCEPT !.id = None]]

\* C18: the output items the background task has persisted for a provider
\* final result are, up to their ids, the output items nonStreamResponse
\* builds for the same result.
C18_BackgroundSameAsSync ==
    (BackgroundStored /\ pc = "closed" /\ adapterOutcome[1].end = "return")
    => WithoutIds(rows[responseId].outputItemsJson)
       = WithoutIds(nonStreamOutputItems(adapterOutcome[1].result.messages, 0))

\* ------------------------------------------------------------------------
\* C19
\* ------------------------------------------------------------------------

\* The cancel handler answered with the given status and error type.
CancelRefused(reply, status, type) ==
    /\ reply # None
    /\ reply[1].status = status
    /\ reply[1].error.type = type

\* C19: a cancel request for an id no row has is answered 404 not_found; for
\* a row with store=false, 409 conflict; for a stored row whose status is
\* neither queued nor in_progress, 409 conflict; in these three cases no
\* statement is issued and the table is unchanged. Otherwise the handler
\* updates the row of that id, which then has status cancelled and
\* cancelled_at set with every other column unchanged, and answers 200 with
\* the response object of that id with status cancelled.
C19_CancelEndpoint ==
    [][/\ cancelCount' = cancelCount + 1
          => LET id == cancelId'[1]
             IN /\ rows' = rows
                /\ id \notin DOMAIN rows
                   => CancelRefused(cancelReply', 404, "not_found") /\ cancelPc' = "idle"
                /\ (id \in DOMAIN rows /\ ~rows[id].store)
                   => CancelRefused(cancelReply', 409, "conflict") /\ cancelPc' = "idle"
                /\ (id \in DOMAIN rows /\ rows[id].store
                    /\ rows[id].status \notin {"queued", "in_progress"})
                   => CancelRefused(cancelReply', 409, "conflict") /\ cancelPc' = "idle"
                /\ (id \in DOMAIN rows /\ rows[id].store
                    /\ rows[id].status \in {"queued", "in_progress"})
                   => cancelPc' = "update"
       /\ (cancelPc = "update" /\ cancelPc' = "idle")
          => LET id == cancelId[1]
             IN /\ DOMAIN rows' = DOMAIN rows
                /\ id \in DOMAIN rows
                   => /\ rows'[id].status = "cancelled"
                      /\ rows'[id].cancelledAt # None
                      /\ \A col \in DOMAIN rows[id] \ {"status", "cancelledAt"} :
                            rows'[id][col] = rows[id][col]
                /\ \A other \in DOMAIN rows \ {id} : rows'[other] = rows[other]
                /\ cancelReply' # None
                /\ cancelReply'[1].status = 200
                /\ cancelReply'[1].body.id = id
                /\ cancelReply'[1].body.object = "response"
                /\ cancelReply'[1].body.status = "cancelled"]_vars

\* A queued row has been cancelled and the handler has answered 200.
C19_Witness ==
    /\ cancelId = Some(PrevId)
    /\ cancelPc = "idle"
    /\ cancelReply # None
    /\ cancelReply[1].status = 200
    /\ cancelReply[1].body.status = "cancelled"
    /\ PrevId \in DOMAIN rows
    /\ rows[PrevId].status = "cancelled"
    /\ rows[PrevId].cancelledAt # None
    /\ \E w \in writes : w.op = "cancel"
    /\ ~(\E w \in writes : w.op = "delete")

\* ------------------------------------------------------------------------
\* C20
\* ------------------------------------------------------------------------

\* The current request's input as items: a non-empty string is one user
\* message; item_reference entries of an array are not items of the list.
RECURSIVE CurrentItems(_)
CurrentItems(items) ==
    IF items = <<>> THEN <<>>
    ELSE (IF Head(items).type = "item_reference" THEN <<>> ELSE <<Head(items)>>)
         \o CurrentItems(Tail(items))

CurrentInputItems(input) ==
    IF input.kind = "array" THEN CurrentItems(input.items)
    ELSE IF input.value = "" THEN <<>>
    ELSE <<[type |-> "message", role |-> "user",
            content |-> StringContent(input.value)]>>

\* The request was answered with an error body of the given status and type.
FailedWith(reply, status, type) ==
    /\ reply # None
    /\ "object" \notin DOMAIN reply[1]
    /\ reply[1].status = status
    /\ reply[1].error.type = type
    /\ reply[1].error.param = Some("previous_response_id")

\* The request names a previous response.
NamesPrevious == request.previous_response_id # None

\* Step 2 of runResponse is over.
Assembled == pc # "assemble"

ItemTypeIs(item, t) == "type" \in DOMAIN item /\ item.type = t

\* The provider messages of the first k input items.
MessagesOfPrefix(k) ==
    convertToProviderMessages(SubSeq(inputItems[1], 1, k),
                              instructionsOf(request)).messages

IsPartOf(part, type, item) == part.type = type /\ part.callId = item.call_id

\* after is before with one part of the item added to its last message.
AppendedToLast(before, after, type, item) ==
    LET n == Len(before)
    IN /\ n > 0
       /\ Len(after) = n
       /\ SubSeq(after, 1, n - 1) = SubSeq(before, 1, n - 1)
       /\ after[n].role = before[n].role
       /\ Len(after[n].content) = Len(before[n].content) + 1
       /\ SubSeq(after[n].content, 1, Len(before[n].content)) = before[n].content
       /\ IsPartOf(Last(after[n].content), type, item)

\* after is before followed by a new message of the role holding one part.
StartedMessage(before, after, role, type, item) ==
    /\ Len(after) = Len(before) + 1
    /\ SubSeq(after, 1, Len(before)) = before
    /\ Last(after).role = role
    /\ Len(Last(after).content) = 1
    /\ IsPartOf(Last(after).content[1], type, item)

HasToolResult(message) ==
    \E k \in DOMAIN message.content : message.content[k].type = "tool_result"

\* The parts an item contributes to the provider messages, as <<type, key>>.
PartKey(part) ==
    IF part.type = "text" THEN <<"text", part.text>>
    ELSE IF part.type = "image" THEN <<"image", part.source.type>>
    ELSE <<part.type, part.callId>>

PartKeysOfItem(item) ==
    IF ItemTypeIs(item, "function_call") THEN <<<<"tool_use", item.call_id>>>>
    ELSE IF ItemTypeIs(item, "function_call_output")
    THEN <<<<"tool_result", item.call_id>>>>
    ELSE IF ItemTypeIs(item, "message") /\ item.role \in {"user", "assistant"}
    THEN LET parts == convertContentToParts(item.content)
         IN [k \in DOMAIN parts |-> PartKey(parts[k])]
    ELSE <<>>

RECURSIVE PartKeysOfItems(_)
PartKeysOfItems(items) ==
    IF items = <<>> THEN <<>>
    ELSE PartKeysOfItem(Head(items)) \o PartKeysOfItems(Tail(items))

RECURSIVE PartKeysOfMessages(_)
PartKeysOfMessages(messages) ==
    IF messages = <<>> THEN <<>>
    ELSE [k \in DOMAIN Head(messages).content |-> PartKey(Head(messages).content[k])]
         \o PartKeysOfMessages(Tail(messages))

\* C21: in the provider messages of the input items, a function_call item adds
\* a tool_use part to the last message when that message is an assistant
\* message and otherwise starts a new assistant message holding it; a
\* function_call_output item adds a tool_result part to the last message when
\* that is a user message already holding a tool_result and otherwise starts
\* a new user message; the parts of all messages, read in order, are the
\* parts of the items in the items' order.
C21_ToolPartsPlacement ==
    providerReq # None =>
        LET items == inputItems[1]
        IN /\ providerReq[1].messages = MessagesOfPrefix(Len(items))
           /\ \A k \in DOMAIN items :
                 LET before == MessagesOfPrefix(k - 1)
                     after == MessagesOfPrefix(k)
                 IN /\ ItemTypeIs(items[k], "function_call") =>
                         IF before # <<>> /\ Last(before).role = "assistant"
                         THEN AppendedToLast(before, after, "tool_use", items[k])
                         ELSE StartedMessage(before, after, "assistant", "tool_use",
                                             items[k])
                    /\ ItemTypeIs(items[k], "function_call_output") =>
                         IF /\ before # <<>>
                            /\ Last(before).role = "user"
                            /\ HasToolResult(Last(before))
                         THEN AppendedToLast(before, after, "tool_result", items[k])
                         ELSE StartedMessage(before, after, "user", "tool_result",
                                             items[k])
           /\ PartKeysOfMessages(providerReq[1].messages) = PartKeysOfItems(items)

\* An assistant message whose text is followed by a tool_use part, then a user
\* message holding two tool results, then a user message of text.
C21_Witness ==
    /\ providerReq # None
    /\ inputItems = Some(<<AssistantParts, FunctionCall, FunctionCallOutput,
                           FunctionCallOutput>>)
       \/ inputItems = Some(<<PrevInputItem, StoredReasoning, StoredCall,
                              FunctionCall, FunctionCallOutput, FunctionCallOutput>>)
    /\ \E m \in DOMAIN providerReq[1].messages :
          /\ providerReq[1].messages[m].role = "user"
          /\ Len(providerReq[1].messages[m].content) = 2
          /\ HasToolResult(providerReq[1].messages[m])
    /\ \E m \in DOMAIN providerReq[1].messages :
          /\ providerReq[1].messages[m].role = "assistant"
          /\ Len(providerReq[1].messages[m].content) = 2
          /\ providerReq[1].messages[m].content[2].type = "tool_use"

\* ------------------------------------------------------------------------
\* C22: system hoisting
\* ------------------------------------------------------------------------

IsSystemMessage(item) ==
    ItemTypeIs(item, "message") /\ item.role \in {"system", "developer"}

\* The request's instructions, if any, then the text of each system or
\* developer message, in item order.
SystemTexts(items) ==
    LET hoisted == SelectSeq(items, IsSystemMessage)
        instructions == instructionsOf(request)
    IN (IF instructions # None /\ instructions[1] # ""
        THEN <<instructions[1]>> ELSE <<>>)
       \o [k \in DOMAIN hoisted |-> extractTextFromContent(hoisted[k].content)]

\* C22: no provider message has role system, and the system string is the
\* request's instructions (if any) followed by the text of each system or
\* developer message in item order, joined with newlines; it is undefined
\* when there are neither.
C22_SystemHoisting ==
    providerReq # None =>
        LET texts == SystemTexts(inputItems[1])
        IN /\ \A m \in DOMAIN providerReq[1].messages :
                 providerReq[1].messages[m].role \in {"user", "assistant"}
           /\ providerReq[1].system
                = IF texts = <<>> THEN None ELSE Some(joinLines(texts))

\* ------------------------------------------------------------------------
\* C23: GET returns what was last written
\* ------------------------------------------------------------------------

\* The five columns of a row the claim is about, named as in the response object.
Persisted(row) ==
    [output |-> row.outputItemsJson, usage |-> row.usageJson, model |-> row.model,
     metadata |-> row.metadata, status |-> row.status]

Returned5(body) ==
    [output |-> body.output, usage |-> body.usage, model |-> body.model,
     metadata |-> body.metadata, status |-> body.status]

\* The step executes the awaited persistResponse statement.
UpsertStep == pending # None /\ pending' = None
\* The step executes a persistPartialOutput statement.
PartialStep == inflight' # inflight /\ inflight' \subseteq inflight
\* The step executes the cancel handler's UPDATE.
CancelStep == cancelPc = "update" /\ cancelPc' = "idle"
\* The step is a GET request.
GetStep == getCount' = getCount + 1

\* The values a write step leaves in the response's row: what the statement
\* sets, and for the other columns what the row held.
WrittenValues ==
    LET id == responseId
    IN IF UpsertStep
       THEN IF id \in DOMAIN rows
            THEN [Persisted(rows[id]) EXCEPT !.status = pending[1].status,
                                             !.output = pending[1].outputItems,
                                             !.usage = pending[1].usage]
            ELSE [output |-> pending[1].outputItems, usage |-> pending[1].usage,
                  model |-> request.model, metadata |-> request.metadata,
                  status |-> pending[1].status]
       ELSE IF CancelStep
       THEN [Persisted(rows[id]) EXCEPT !.status = "cancelled"]
       ELSE IF PartialStep /\ rows[id].status = "in_progress"
       THEN [Persisted(rows[id]) EXCEPT
                !.output = CHOOSE o \in inflight : o \notin inflight']
       ELSE Persisted(rows[id])

\* C23: every write to the response's row (initial insert, partial update,
\* terminal write, cancel) leaves in the row the values it wrote, no other
\* step changes the row, and a GET of the id returns a response object whose
\* output, usage, model, metadata and status are those of the row, that is
\* the values last written.
C23_GetRoundTrip ==
    [][responseId # None /\ responseId' = responseId
       => LET id == responseId
          IN /\ (UpsertStep \/ CancelStep \/ PartialStep)
                => /\ id \in DOMAIN rows'
                   /\ Persisted(rows'[id]) = WrittenValues
             /\ ~(UpsertStep \/ CancelStep \/ PartialStep) => rows' = rows
             /\ (GetStep /\ id \in DOMAIN rows)
                => /\ getReply'[1].status = 200
                   /\ Returned5(getReply'[1].body) = Persisted(rows[id])]_vars

\* A GET after the initial insert, a partial update and the terminal write.
C23_Witness ==
    /\ getReply # None
    /\ "body" \in DOMAIN getReply[1]
    /\ getReply[1].body.status = "completed"
    /\ getReply[1].body.usage # None
    /\ getReply[1].body.output # <<>>
    /\ getReply[1].body.metadata = [user |-> "u1"]
    /\ \E w \in writes : w.op = "partial"

\* ------------------------------------------------------------------------
\* C24: writes to a closed SSE sink
\* ------------------------------------------------------------------------

\* The adapter's stream ended without throwing and the task has finished.
EndedNaturally == adapterOutcome = Some(Ended) /\ pc = "closed"

\* C24: once the SSE sink is closed no frame is written any more and the task
\* does not fail for it; when the adapter's stream later ends without
\* throwing, a store=true task has written the row as completed, holding the
\* output accumulated from every event the adapter yielded, those yielded
\* after the sink was closed included.
C24_SinkFailureSwallowed ==
    /\ [][sinkClosed => wire' = wire]_vars
    /\ [](request.stream /\ sinkClosed /\ EndedNaturally
           => /\ \A w \in writes : w.status # "failed"
              /\ request.store
                 => /\ responseId \in DOMAIN rows
                    /\ rows[responseId].status = "completed"
                    /\ HoldsPartialOutput(rows[responseId].outputItemsJson)
                    /\ YieldedSome("message_done")
                       => rows[responseId].usageJson # None)

\* The sink was closed before the first delta: no delta frame was written,
\* and the completed row holds the text and the function call.
C24_Witness ==
    /\ request.store
    /\ sinkClosed
    /\ EndedNaturally
    /\ \A i \in DOMAIN wire : ~IsDone(wire[i]) /\ wire[i].type = "response.in_progress"
    /\ responseId \in DOMAIN rows
    /\ rows[responseId].status = "completed"
    /\ Len(rows[responseId].outputItemsJson) = 2
    /\ YieldedSome("text_delta")

\* ------------------------------------------------------------------------
\* C25: built-in tools
\* ------------------------------------------------------------------------

\* The route has handled the request.
Routed == pc # "route"

\* A request the endpoint accepts but for its tools: the compact endpoint
\* requires previous_response_id.
WellFormedFor(req) == req.endpoint = "compact" => req.previous_response_id # None

\* C25: a request whose tools list holds a built-in tool type fails with 501
\* not_implemented before the orchestrator is entered: no input items are
\* assembled, no provider call is made and no row is written, on
\* POST /v1/responses and on POST /v1/responses/compact alike.
C25_BuiltinToolsNotImplemented ==
    (Routed /\ hasBuiltin(request.tools) /\ WellFormedFor(request))
    => /\ pc = "closed"
       /\ httpResponse # None
       /\ "object" \notin DOMAIN httpResponse[1]
       /\ httpResponse[1].status = 501
       /\ httpResponse[1].error.type = "not_implemented"
       /\ inputItems = None
       /\ adapterOutcome = None
       /\ writes = {}

\* ------------------------------------------------------------------------
\* C26: adapter instances are cached per process
\* ------------------------------------------------------------------------

ReturnedAdapter(c) == resolveCalls[c].pc = "returned"
KeyOfCall(c) == ModelRegistry[resolveCalls[c].modelId].adapterKey

\* C26: any two resolveAdapter calls for models of the same adapter key
\* return the same adapter instance, also when they run concurrently before
\* the cache is filled, and at most one instance per adapter key is created.
C26_AdapterSingleton ==
    /\ \A c, d \in Callers :
          (ReturnedAdapter(c) /\ ReturnedAdapter(d) /\ KeyOfCall(c) = KeyOfCall(d))
          => resolveCalls[c].adapter = resolveCalls[d].adapter
    /\ adaptersCreated <= Cardinality(DOMAIN adapterCache)

\* ------------------------------------------------------------------------
\* C27: a provider failure on the synchronous path
\* ------------------------------------------------------------------------

\* The request took the synchronous path and its provider call threw.
SyncCallFailed ==
    /\ ~request.stream
    /\ ~(request.background /\ request.store)
    /\ adapterOutcome # None
    /\ adapterOutcome[1].end = "throw"

IsServerError(reply) ==
    /\ reply # None
    /\ "object" \notin DOMAIN reply[1]
    /\ reply[1].status = 500
    /\ reply[1].error.type = "server_error"

\* C27 as stated: when the provider call of the synchronous path fails, the
\* HTTP response is a 500 server_error whose message is the provider's
\* error message.
C27_SyncFailureProviderMessage ==
    SyncCallFailed
    => /\ IsServerError(httpResponse)
       /\ httpResponse[1].error.message = MessageOfThrown(adapterOutcome[1].error)

\* C27 amended: when the provider call of the synchronous path fails, the
\* HTTP response is a 500 server_error whose message is the fixed text
\* "Internal server error.", whatever was thrown; nothing is written to the
\* table and no response object is built.
C27_SyncFailureGenericMessage ==
    SyncCallFailed
    => /\ IsServerError(httpResponse)
       /\ httpResponse[1].error.message = "Internal server error."
       /\ httpResponse[1].error.param = None
       /\ pc = "closed"
       /\ writes = {}
       /\ responseObj = None

\* The provider call of a synchronous store=true request threw an Error with
\* a message of its own.
C27_Witness ==
    /\ SyncCallFailed
    /\ request.store
    /\ adapterOutcome[1].error.class = "Error"
    /\ adapterOutcome[1].error.message = "upstream exploded"
    /\ IsServerError(httpResponse)

\* ------------------------------------------------------------------------
\* C28: item status on interruption
\* ------------------------------------------------------------------------

\* The call of a function call item has received tool_call_done.
CallClosed(item) ==
    \E i \in DOMAIN yielded :
        yielded[i].type = "tool_call_done" /\ yielded[i].callId = item.call_id

\* The items of an output that were not closed when the stream was
\* interrupted before message_done: the message item, and the function calls
\* without tool_call_done.
UnclosedItems(output) ==
    SelectSeq(output,
              LAMBDA item : \/ IsMessageItem(item)
                            \/ IsFunctionCallItem(item) /\ ~CallClosed(item))

\* C28: when the stream is interrupted by an abort before message_done, every
\* unclosed item of the persisted output (the opened message item, each
\* function call without tool_call_done) has status in_progress or
\* incomplete, never completed.
C28_ItemStatusOnInterruption ==
    (/\ request.store
     /\ ThrewAbort(adapterOutcome)
     /\ ~YieldedSome("message_done")
     /\ pc = "closed"
     /\ responseId \in DOMAIN rows)
    => LET unclosed == UnclosedItems(rows[responseId].outputItemsJson)
       IN \A k \in DOMAIN unclosed :
             unclosed[k].status \in {"in_progress", "incomplete"}

\* ------------------------------------------------------------------------
\* C29: thinking events are silent
\* ------------------------------------------------------------------------

IsThinkingEvent(e) == e.type \in {"thinking_delta", "thinking_done"}

\* The thinking text accumulated over evs: a delta extends it, thinking_done
\* replaces it.
RECURSIVE ThinkingOf(_)
ThinkingOf(evs) ==
    IF evs = <<>> THEN ""
    ELSE LET e == evs[Len(evs)]
             before == ThinkingOf(SubSeq(evs, 1, Len(evs) - 1))
         IN IF e.type = "thinking_delta" THEN before \o e.delta
            ELSE IF e.type = "thinking_done" THEN e.text
            ELSE before

IsReasoningItem(item) == item.type = "reasoning"

\* output holds one reasoning item, at its head, summarising the thinking;
\* or none when no thinking was accumulated.
ReasoningAtHead(output, thinking) ==
    LET rs == SelectSeq(output, IsReasoningItem)
    IN IF thinking = ""
       THEN rs = <<>>
       ELSE /\ Len(rs) = 1
            /\ IsReasoningItem(output[1])
            /\ Len(output[1].summary) = 1
            /\ output[1].summary[1].text = thinking

\* The step handles one more event of the adapter.
YieldStep == Len(yielded') = Len(yielded) + 1

\* C29: a thinking_delta or thinking_done event writes no frame and takes no
\* sequence number and no output index; the output of response.completed and
\* of the completed row holds exactly one reasoning item, at position 0,
\* whose summary text is the accumulated thinking, when any was accumulated,
\* and no reasoning item otherwise.
C29_ThinkingSilent ==
    /\ [][(YieldStep /\ IsThinkingEvent(Last(yielded')))
           => /\ wire' = wire
              /\ sequence' = sequence
              /\ nextOutputIndex' = nextOutputIndex]_vars
    /\ [][(YieldStep /\ Last(yielded').type = "message_done")
           => \E i \in DOMAIN wire' :
                 /\ i > Len(wire)
                 /\ IsTyped(wire'[i], "response.completed")
                 /\ ReasoningAtHead(wire'[i].response.output, ThinkingOf(yielded))]_vars
    /\ [](request.store /\ adapterOutcome = Some(Ended) /\ pc = "closed"
           => /\ rows[responseId].status = "completed"
              /\ ReasoningAtHead(rows[responseId].outputItemsJson,
                                 ThinkingOf(yielded)))

\* Thinking, then text, then message_done: the completed row's output starts
\* with the reasoning item and the wire holds no frame about it.
C29_Witness ==
    /\ request.store
    /\ adapterOutcome = Some(Ended)
    /\ pc = "closed"
    /\ YieldedSome("thinking_delta")
    /\ YieldedSome("text_delta")
    /\ YieldedSome("message_done")
    /\ Len(rows[responseId].outputItemsJson) = 2
    /\ IsReasoningItem(rows[responseId].outputItemsJson[1])
    /\ \A i \in DOMAIN wire :
          (~IsDone(wire[i]) /\ "item" \in DOMAIN wire[i])
          => ~IsReasoningItem(wire[i].item)

\* ------------------------------------------------------------------------
\* C30: a deleted response is never resurrected
\* ------------------------------------------------------------------------

\* The delete endpoint has answered 200 for the id.
DeleteSucceeded ==
    /\ deleteReply # None
    /\ deleteReply[1].status = 200

\* The step is a GET of the response.
GetAnswered == getCount' = getCount + 1

\* C30: after DELETE of an id has succeeded the row stays absent and GET
\* answers 404, whatever the streaming or background task of that id writes
\* afterwards.
C30_DeletedNeverResurrected ==
    /\ [](DeleteSucceeded => deleteId[1] \notin DOMAIN rows)
    /\ [][(DeleteSucceeded /\ GetAnswered) => getReply'[1].status = 404]_vars

\* ------------------------------------------------------------------------
\* C31: sequence_number on every event
\* ------------------------------------------------------------------------

HasSequenceNumber(frame) == "sequence_number" \in DOMAIN frame

\* C31: every frame written to the stream other than the [DONE] marker, the
\* error event of the failure path included, carries a sequence_number field.
C31_EveryEventNumbered ==
    \A i \in DOMAIN wire : ~IsDone(wire[i]) => HasSequenceNumber(wire[i])

\* ------------------------------------------------------------------------
\* C32: the message's output_index against the function calls'
\* ------------------------------------------------------------------------

IsAddedMessage(f) == IsAdded(f) /\ IsMessageItem(f.item)
IsAddedCall(f) == IsAdded(f) /\ IsFunctionCallItem(f.item)

\* The positions in evs of the events that pass Test, in increasing order.
PositionsWhere(evs, Test(_)) ==
    SelectSeq([i \in 1..Len(evs) |-> i], LAMBDA i : Test(evs[i]))

\* The function_call items are indexed in the order of their starts.
CallsIndexedInStartOrder ==
    LET calls == FramesWhere(IsAddedCall)
    IN \A j, k \in 1..Len(calls) :
          j < k => calls[j].output_index < calls[k].output_index

\* C32 as stated: in a stream in which a message item is opened, the message's
\* output_index is smaller than the output_index of every function_call item,
\* whatever the order of text_delta and tool_call_start events, and the
\* function_call items are indexed in the order of their starts.
C32_MessageIndexSmallest ==
    LET msgs == FramesWhere(IsAddedMessage)
        calls == FramesWhere(IsAddedCall)
    IN msgs # <<>>
       => /\ \A k \in 1..Len(calls) : msgs[1].output_index < calls[k].output_index
          /\ CallsIndexedInStartOrder

\* C32 amended: the message's output_index is smaller than a function call's
\* exactly when the first text_delta came before that call's tool_call_start;
\* the function_call items are indexed in the order of their starts.
C32_MessageIndexByAppearance ==
    LET msgs == FramesWhere(IsAddedMessage)
        calls == FramesWhere(IsAddedCall)
        texts == PositionsWhere(yielded, IsTextDelta)
        starts == PositionsWhere(yielded, IsToolCallStart)
    IN /\ Len(calls) = Len(starts)
       /\ (msgs # <<>>) = (texts # <<>>)
       /\ Len(msgs) <= 1
       /\ msgs # <<>>
          => \A k \in 1..Len(calls) :
                (msgs[1].output_index < calls[k].output_index)
                = (texts[1] < starts[k])
       /\ CallsIndexedInStartOrder

\* A tool call starts, then text arrives, then a second tool call starts: the
\* message's index lies between the two calls' indices.
C32_Witness ==
    /\ Len(yielded) = 3
    /\ IsToolCallStart(yielded[1])
    /\ IsTextDelta(yielded[2])
    /\ IsToolCallStart(yielded[3])
    /\ FramesWhere(IsAddedMessage)[1].output_index = 1

\* ------------------------------------------------------------------------
\* C33: at most one terminal typed event
\* ------------------------------------------------------------------------

IsCompletedFrame(f) == IsTyped(f, "response.completed")
IsFailedFrame(f) == IsTyped(f, "response.failed")

\* C33: whatever the adapter yields and however its stream ends, the stream
\* carries response.completed at most once, response.failed at most once, and
\* never both.
C33_AtMostOneTerminalEvent ==
    Len(FramesWhere(IsCompletedFrame)) + Len(FramesWhere(IsFailedFrame)) <= 1

\* ------------------------------------------------------------------------
\* C34: a completed row has its response.completed event
\* ------------------------------------------------------------------------

\* The stream has carried a response.completed event with this usage.
CompletedEmittedWith(usage) ==
    \E i \in DOMAIN wire :
        /\ IsCompletedFrame(wire[i])
        /\ wire[i].response.usage = usage

\* C34: whenever the streaming task of a store=true request has written status
\* completed to its row, the stream has carried a response.completed event
\* with the row's usage; a stream that ends without message_done leaves no
\* completed row.
C34_CompletedRowHasCompletedEvent ==
    \A id \in DOMAIN rows :
        rows[id].status = "completed"
        => /\ YieldedSome("message_done")
           /\ CompletedEmittedWith(rows[id].usageJson)

\* ------------------------------------------------------------------------
\* C35: position in the output array against output_index
\* ------------------------------------------------------------------------

NoThinking == ~YieldedSome("thinking_delta") /\ ~YieldedSome("thinking_done")

\* The item at position k (from 0) of output is the one an output_item.added
\* frame announced with output_index k.
PositionsMatchIndices(output) ==
    \A k \in 1..Len(output) :
        \E i \in DOMAIN wire :
            /\ IsAdded(wire[i])
            /\ wire[i].output_index = k - 1
            /\ wire[i].item.id = output[k].id

\* C35: in a stream without thinking events, whatever the order of text_delta
\* and tool_call_start events, the item at position k of the output array of
\* response.completed and of the completed row is the item announced on the
\* wire with output_index k.
C35_OutputPositionIsOutputIndex ==
    NoThinking
    => /\ \A i \in DOMAIN wire :
             IsCompletedFrame(wire[i])
             => PositionsMatchIndices(wire[i].response.output)
       /\ \A id \in DOMAIN rows :
             rows[id].status = "completed"
             => PositionsMatchIndices(rows[id].outputItemsJson)

\* ------------------------------------------------------------------------
\* C36: the final persist against response.completed
\* ------------------------------------------------------------------------

\* The stream has completed: message_done was the adapter's last event, the
\* adapter returned, and the final persist has been executed.
StreamCompleted ==
    /\ request.store
    /\ pc = "closed"
    /\ adapterOutcome = Some(Ended)
    /\ yielded # <<>>
    /\ Last(yielded).type = "message_done"

\* C36: when a store=true stream has completed, the output items the final
\* persist wrote to the row are identical, every item id included (message,
\* function_call and reasoning), to the output array of the stream's
\* response.completed event.
C36_FinalPersistEqualsCompletedEvent ==
    StreamCompleted
    => rows[responseId].outputItemsJson
       = Last(FramesWhere(IsCompletedFrame)).response.output

\* ------------------------------------------------------------------------
\* C37: completed_at and cancelled_at against status
\* ------------------------------------------------------------------------

DoneEmitted == DoneCount > 0

\* The adapter's stream ended with an abort error.
AbortedOutcome ==
    /\ adapterOutcome # None
    /\ adapterOutcome[1].end = "throw"
    /\ isAbort(adapterOutcome[1].error)

\* C38 as stated: on a store=true stream the terminal row write has finished
\* before [DONE] is emitted, so the row is never in_progress once [DONE] is on
\* the wire.
C38_TerminalWriteBeforeDone ==
    (request.store /\ DoneEmitted) => rows[responseId].status # "in_progress"

\* C38 amended: only the abort path writes its terminal row (incomplete)
\* before [DONE]; on normal end and on failure [DONE] is emitted first and the
\* row stays in_progress until the terminal write that follows is executed.
C38_TerminalWriteBeforeDoneOnAbortOnly ==
    (request.store /\ DoneEmitted)
    => /\ adapterOutcome # None
       /\ AbortedOutcome => rows[responseId].status = "incomplete"
       /\ ~AbortedOutcome
          => /\ pc \in {"final_persist", "fail_persist", "closed"}
             /\ (rows[responseId].status = "in_progress") = (pc # "closed")

\* The abort path has emitted [DONE] with the incomplete row already written.
C38_Witness ==
    /\ request.store
    /\ DoneEmitted
    /\ AbortedOutcome
    /\ YieldedSome("text_delta")
    /\ rows[responseId].status = "incomplete"

\* ------------------------------------------------------------------------
\* C39: chaining accumulates the history
\* ------------------------------------------------------------------------

\* The request that produced the response id: the running one, or an earlier
\* one of the history.
ServedRequestOf(id) ==
    IF id = responseId THEN request
    ELSE served[CHOOSE k \in DOMAIN served : served[k].id = id].request

\* The new input of a request: a non-empty string as one user message, an
\* array without its item_reference entries.
NewInput(req) ==
    IF req.input.kind = "string"
    THEN (IF req.input.value = "" THEN <<>>
          ELSE <<[type |-> "message", role |-> "user",
                  content |-> StringContent(req.input.value)]>>)
    ELSE SelectSeq(req.input.items, LAMBDA item : item.type # "item_reference")

\* new_input(r1), output(r1), ..., new_input(rn) along the chain that ends in
\* the response id, following previous_response_id back to its first response.
RECURSIVE ChainHistory(_)
ChainHistory(id) ==
    LET req == ServedRequestOf(id)
        pid == req.previous_response_id
    IN IF pid = None
       THEN NewInput(req)
       ELSE ChainHistory(pid[1]) \o rows[pid[1]].outputItemsJson \o NewInput(req)

\* C39: the input items stored with a response equal the new inputs and the
\* outputs of the responses of its chain, concatenated in order, the last new
\* input at the end; item_reference entries add nothing.
C39_ChainAccumulatesHistory ==
    \A id \in DOMAIN rows : rows[id].inputItemsJson = ChainHistory(id)

\* A chain of three stored responses, the last one with an item_reference in
\* its input, the earlier ones with output.
C39_Witness ==
    /\ pc = "closed"
    /\ Len(served) = 2
    /\ responseId \in DOMAIN rows
    /\ request.previous_response_id = Some(served[2].id)
    /\ served[2].request.previous_response_id = Some(served[1].id)
    /\ request.input.kind = "array"
    /\ Len(rows[served[1].id].outputItemsJson) = 2
    /\ Len(rows[served[2].id].outputItemsJson) = 1
    /\ Len(rows[responseId].inputItemsJson) = 6

\* ------------------------------------------------------------------------
\* C40: the event contract of OpenAICompatibleAdapter.chatStream
\* ------------------------------------------------------------------------

\* The upstream's stream has ended without error.
UpstreamEnded == chatStream.pc = "done"

\* The entries of delta.tool_calls of the chunks, in the order received.
RECURSIVE SentToolCalls(_)
SentToolCalls(chunks) ==
    IF chunks = <<>> THEN <<>>
    ELSE LET c == Head(chunks)
         IN (IF c.choices # <<>> /\ c.choices[1].delta # None
             THEN c.choices[1].delta[1].tool_calls
             ELSE <<>>)
            \o SentToolCalls(Tail(chunks))

\* The argument fragments sent for the call that the k-th entry of sent
\* starts: its own, then those of the later id-less entries with its index,
\* up to the next entry that starts a call at that index.
RECURSIVE FragmentsAfter(_, _, _)
FragmentsAfter(sent, k, index) ==
    IF k > Len(sent) THEN ""
    ELSE IF sent[k].index # index THEN FragmentsAfter(sent, k + 1, index)
    ELSE IF sent[k].id # "" THEN ""
    ELSE sent[k].arguments \o FragmentsAfter(sent, k + 1, index)

AccumulatedArguments(sent, k) ==
    sent[k].arguments \o FragmentsAfter(sent, k + 1, sent[k].index)

IsToolCallDone(e) == e.type = "tool_call_done"
IsMessageDone(e) == e.type = "message_done"

\* C40: when the upstream's chunk sequence has ended without error, each
\* tool_call_start the adapter yielded is matched by exactly one later
\* tool_call_done with the same callId and outputIndex, whose arguments are the
\* full accumulated argument string; every tool_call_done precedes
\* message_done; message_done is yielded exactly once, as the last event.
C40_ChatStreamContract ==
    UpstreamEnded
    => LET sent == SentToolCalls(chatStream.chunks)
           starting == PositionsWhere(sent, LAMBDA tc : tc.id # "")
           starts == PositionsWhere(yielded, IsToolCallStart)
       IN /\ Len(starts) = Len(starting)
          /\ \A n \in DOMAIN starts :
                LET matches == {j \in DOMAIN yielded :
                                   /\ j > starts[n]
                                   /\ IsToolCallDone(yielded[j])
                                   /\ yielded[j].callId = yielded[starts[n]].callId
                                   /\ yielded[j].outputIndex
                                      = yielded[starts[n]].outputIndex}
                IN /\ Cardinality(matches) = 1
                   /\ \A j \in matches :
                         yielded[j].arguments
                         = AccumulatedArguments(sent, starting[n])
          /\ Len(SelectSeq(yielded, IsMessageDone)) = 1
          /\ IsMessageDone(Last(yielded))

\* The upstream starts at most one call at each index.
OneStartPerIndex ==
    LET sent == SentToolCalls(chatStream.chunks)
    IN \A j, k \in DOMAIN sent :
          (sent[j].id # "" /\ sent[k].id # "" /\ sent[j].index = sent[k].index)
          => j = k
====
